---- MODULE Spec2Model ----
(***************************************************************************)
(* The statistics ingest pipeline of src/ingest: the play loader, the      *)
(* per-attempt median aggregator, the player resolver, the weekly boxscore *)
(* rebuild, the seasonal loader and the run_update orchestrator, over a    *)
(* relational store modelled as bags of rows.                              *)
(*                                                                         *)
(* Nullable columns hold a set: {} is SQL NULL / NaN, {v} is the value v.  *)
(* Doubles are modelled as integers (EPA) or as <<numerator, denominator>> *)
(* pairs (medians and averages).                                           *)
(***************************************************************************)
EXTENDS Integers, Sequences, FiniteSets, Bags, TLC

VARIABLES
    upstream,         \* the provider's play-by-play rows (all seasons)
    Play,             \* table "Play": bag of rows
    Player,           \* table "Player": set of rows, pfr_id unique
    PlayerStats,      \* table "PlayerStats": bag of rows
    GameStat,         \* table "GameStat": bag of rows
    AdvancedMetrics,  \* table "AdvancedMetrics": bag of rows
    orch,             \* run_update's position: year, clear, stage, result
    log,              \* stage start/end events of the current run_update
    last,             \* the last script or function that ran, with its outcome
    fresh,            \* row counts after the first successful load into an empty store
    runs              \* number of operations started so far

vars == <<upstream, Play, Player, PlayerStats, GameStat, AdvancedMetrics,
          orch, log, last, fresh, runs>>

dbvars == <<Play, Player, PlayerStats, GameStat, AdvancedMetrics>>

\* the store as a script finds it
Unchanged ==
    [Play |-> Play, Player |-> Player, PlayerStats |-> PlayerStats,
     GameStat |-> GameStat, AdvancedMetrics |-> AdvancedMetrics]

-----------------------------------------------------------------------------
(* Bounds of the model *)

\* script runs by hand in one behaviour
MaxRuns == 3

\* copies of one play key the Play table may hold before a further blind
\* insert is left out of the model
MaxCopies == 2

\* run_update is called at most this many times
MaxUpdates == 2

\* scripts run by hand against the season tables in one behaviour
MaxScripts == 3

\* plays of the one game the provider reports in the yardage specification
MaxPlays == 4

-----------------------------------------------------------------------------
(* Values *)

Null == {}
Some(v) == {v}
IsNull(x) == x = {}
Val(x) == CHOOSE v \in x : TRUE

NullId == "NULL"

Seasons == {2024, 2025}

\* populate_2025_all_positions.py: season = 2025; run_update: if year == 2025
CurrentSeason == 2025

\* the order pandas/SQL sort the identifiers in
PfrOrder == <<"q", "r", "x">>
PfrIds == {PfrOrder[i] : i \in 1..Len(PfrOrder)}
PfrIndex(p) == CHOOSE i \in 1..Len(PfrOrder) : PfrOrder[i] = p

\* nfl.import_seasonal_rosters: position by GSIS id; "x" is on no roster
RosterPosition == [p \in {"q", "r"} |-> IF p = "q" THEN "QB" ELSE "RB"]

-----------------------------------------------------------------------------
(* Bags *)

BagFilter(B, P(_)) == [e \in {x \in DOMAIN B : P(x)} |-> B[e]]

BagSize(B) == BagCardinality(B)

RECURSIVE SumFn(_, _)
\* the sum of fn[e] over e in S
SumFn(fn, S) ==
    IF S = {} THEN 0
    ELSE LET e == CHOOSE x \in S : TRUE
         IN  fn[e] + SumFn(fn, S \ {e})

\* SUM(f(row)) over the rows S of bag B, each counted with its multiplicity
BagSumOver(B, S, f(_)) == SumFn([e \in S |-> B[e] * f(e)], S)

MaxCopiesIn(B) ==
    IF DOMAIN B = {} THEN 0
    ELSE CHOOSE n \in {B[e] : e \in DOMAIN B} : \A e \in DOMAIN B : B[e] <= n

-----------------------------------------------------------------------------
(* The provider's play-by-play data *)

BlankPlay ==
    [game_id |-> "g1", play_id |-> 1, season |-> 2025, season_type |-> "REG",
     week |-> Some(1), game_date |-> "d1", play_type |-> "pass",
     passer_player_id |-> NullId, passer_player_name |-> NullId,
     rusher_player_id |-> NullId, rusher_player_name |-> NullId,
     receiver_player_id |-> NullId, receiver_player_name |-> NullId,
     pass_attempt |-> FALSE, complete_pass |-> FALSE, sack |-> FALSE,
     interception |-> FALSE, rush_attempt |-> FALSE,
     pass_touchdown |-> FALSE, rush_touchdown |-> FALSE,
     passing_yards |-> Null, rushing_yards |-> Null, receiving_yards |-> Null,
     cpoe |-> Null, epa |-> Some(0), success |-> 0]

\* q completes a 10 yard pass to r
U1 == [BlankPlay EXCEPT !.passer_player_id = "q", !.passer_player_name = "Q",
          !.receiver_player_id = "r", !.receiver_player_name = "R",
          !.pass_attempt = TRUE, !.complete_pass = TRUE,
          !.passing_yards = Some(10), !.receiving_yards = Some(10),
          !.cpoe = Some(5), !.epa = Some(2), !.success = 1]

\* q is sacked: a pass attempt with no yardage
U2 == [BlankPlay EXCEPT !.play_id = 2, !.passer_player_id = "q",
          !.passer_player_name = "Q", !.pass_attempt = TRUE, !.sack = TRUE,
          !.epa = Some(-2)]

\* r runs for 4 yards
U3 == [BlankPlay EXCEPT !.play_id = 3, !.play_type = "run",
          !.rusher_player_id = "r", !.rusher_player_name = "R",
          !.rush_attempt = TRUE, !.rush_touchdown = TRUE,
          !.rushing_yards = Some(4), !.epa = Some(1), !.success = 1]

\* week 2: q completes a 5 yard pass to x, who is on no roster
U4 == [BlankPlay EXCEPT !.game_id = "g2", !.week = Some(2), !.game_date = "d2",
          !.passer_player_id = "q", !.passer_player_name = "Q",
          !.receiver_player_id = "x", !.receiver_player_name = "X",
          !.pass_attempt = TRUE, !.complete_pass = TRUE,
          !.passing_yards = Some(5), !.receiving_yards = Some(5),
          !.epa = Some(0)]

\* a post-season play
U5 == [BlankPlay EXCEPT !.game_id = "g3", !.season_type = "POST",
          !.week = Some(19), !.game_date = "d3", !.play_type = "run",
          !.rusher_player_id = "r", !.rusher_player_name = "R",
          !.rush_attempt = TRUE, !.rushing_yards = Some(7),
          !.epa = Some(3), !.success = 1]

\* the historical season: r runs for 3 yards, q completes a 6 yard pass to r
\* that is worth exactly zero EPA
H1 == [U3 EXCEPT !.game_id = "h1", !.play_id = 1, !.season = 2024,
          !.rushing_yards = Some(3)]
H2 == [U1 EXCEPT !.game_id = "h1", !.play_id = 2, !.season = 2024,
          !.passing_yards = Some(6), !.receiving_yards = Some(6),
          !.epa = Some(0)]

Catalogue == {U1, U2, U3, U4, U5, H1, H2}

\* a year later the provider also has the season after 2025: r runs for 2 yards
N1 == [U3 EXCEPT !.game_id = "n1", !.play_id = 1, !.season = 2026,
          !.rushing_yards = Some(2)]

NextYearCatalogue == Catalogue \cup {N1}

\* the seasons the provider can have plays of
ProviderSeasons == {u.season : u \in NextYearCatalogue}

-----------------------------------------------------------------------------
(* Play Ingestor: load_pbp_fast.py *)

\* pbp['play_id'].astype(str) on the provider's numeric play_id
StrOfNumber(n) == [text |-> n]

\* str(row[1]) on the text the Play table returns
StrOfText(t) == t

\* the columns of the target table; epa, success and season_type are not loaded
PlayCols ==
    {"game_id", "play_id", "season", "week", "game_date", "play_type",
     "passer_player_id", "passer_player_name", "passing_yards",
     "pass_attempt", "complete_pass", "sack", "interception", "cpoe",
     "rusher_player_id", "rusher_player_name", "rushing_yards", "rush_attempt",
     "receiver_player_id", "receiver_player_name", "receiving_yards",
     "pass_touchdown", "rush_touchdown"}

\* one provider row as the row COPY writes
ToPlayRow(u) ==
    [c \in PlayCols |-> IF c = "play_id" THEN StrOfNumber(u.play_id) ELSE u[c]]

PlayKey(row) == <<row.game_id, row.play_id>>

\* SELECT DISTINCT game_id, play_id FROM "Play" WHERE season = :season
ExistingPlays(season) ==
    {<<StrOfText(r.game_id), StrOfText(r.play_id)>> :
        r \in {x \in DOMAIN Play : x.season = season}}

\* the rows the duplicate filter lets through, given the lookup's result
NewPlays(pbp, existing_plays) ==
    {ToPlayRow(u) : u \in {v \in pbp : PlayKey(ToPlayRow(v)) \notin existing_plays}}

\* the frame nfl.import_pbp_data([season]) returns
FetchPbp(season) == {u \in upstream : u.season = season}

\* load_pbp_season with a missing "return 0" after a failed fetch
LoadPbpResultNoFetchCheck(season, fetch, lookup, copy) ==
    LET pbp      == {u \in FetchPbp(season) : u.season_type = "REG"}
        existing == IF lookup = "ok" THEN ExistingPlays(season) ELSE {}
        rows     == NewPlays(pbp, existing)
    IN  IF rows = {} \/ copy = "error"
        THEN [ret |-> 0, raised |-> FALSE, play |-> Play]
        ELSE [ret |-> Cardinality(rows), raised |-> FALSE,
              play |-> Play (+) SetToBag(rows)]

\* load_pbp_season(season) -> number of rows inserted.
\*   fetch  : "error" when nfl.import_pbp_data raises, "ok" otherwise
\*   lookup : "error" when the SELECT of the stored keys raises
\*   copy   : "error" when COPY raises (nothing is committed)
\* Every exception is caught inside the function: it never raises.
LoadPbpResult(season, fetch, lookup, copy) ==
    LET pbp      == {u \in FetchPbp(season) : u.season_type = "REG"}
        existing == IF lookup = "ok" THEN ExistingPlays(season) ELSE {}
        rows     == NewPlays(pbp, existing)
    IN  IF fetch = "error" \/ pbp = {} \/ rows = {} \/ copy = "error"
        THEN [ret |-> 0, raised |-> FALSE, play |-> Play]
        ELSE [ret |-> Cardinality(rows), raised |-> FALSE,
              play |-> Play (+) SetToBag(rows)]

LoadPbpSeason(season, fetch, lookup, copy) ==
    LET res == LoadPbpResult(season, fetch, lookup, copy)
    IN  /\ Play' = res.play
        /\ last' = [op |-> "load_pbp", season |-> season, fetch |-> fetch,
                    lookup |-> lookup, copy |-> copy, ret |-> res.ret,
                    raised |-> res.raised, before |-> Play,
                    pbp |-> FetchPbp(season)]

Outcomes == {"ok", "error"}

-----------------------------------------------------------------------------
(* The relational store's upsert *)

\* the number of rows of bag B whose key is k
KeyOf(r, cols) == [c \in cols |-> r[c]]

KeyCount(B, cols, k) ==
    BagCardinality(BagFilter(B, LAMBDA e : KeyOf(e, cols) = k))

\* INSERT the rows ... ON CONFLICT (key) DO UPDATE SET every other column:
\* a row whose key is stored overwrites the stored row, another is appended.
\* The rows of one statement have distinct keys.
Upsert(B, rows, cols) ==
    LET keys == {KeyOf(r, cols) : r \in rows}
        keep == BagFilter(B, LAMBDA e : KeyOf(e, cols) \notin keys)
    IN  keep (+) [r \in rows |->
                    IF KeyCount(B, cols, KeyOf(r, cols)) = 0 THEN 1
                    ELSE KeyCount(B, cols, KeyOf(r, cols))]

\* a plain INSERT of the rows
InsertRows(B, rows) == B (+) SetToBag(rows)

PlayerSeasonKey == {"playerId", "season"}

-----------------------------------------------------------------------------
(* Per-Player Statistical Aggregator: calculate_medians_fast.py *)

Roles(pb) == {pb.passer_player_id, pb.rusher_player_id, pb.receiver_player_id}

\* FILTER (WHERE ...) of pass_vec; play_type NOT IN ('qb_spike') is not true
\* of a NULL play_type
PassVecFilter(pb, season, pfr) ==
    /\ pb.season = season
    /\ ~IsNull(pb.passing_yards)
    /\ pb.pass_attempt
    /\ ~pb.sack
    /\ pb.play_type # NullId /\ pb.play_type # "qb_spike"
    /\ pfr = pb.passer_player_id

RushVecFilter(pb, season, pfr) ==
    /\ pb.season = season
    /\ ~IsNull(pb.rushing_yards)
    /\ pb.rush_attempt
    /\ pfr = pb.rusher_player_id

RecvVecFilter(pb, season, pfr) ==
    /\ pb.season = season
    /\ ~IsNull(pb.receiving_yards)
    /\ pb.complete_pass
    /\ pfr = pb.receiver_player_id

Min(S) == CHOOSE m \in S : \A x \in S : m <= x

RECURSIVE SortedVec(_)
\* array_agg(v ORDER BY v) of a bag of numbers (value -> copies)
SortedVec(vb) ==
    IF DOMAIN vb = {} THEN <<>>
    ELSE LET m == Min(DOMAIN vb)
         IN  [i \in 1..vb[m] |-> m]
               \o SortedVec([v \in DOMAIN vb \ {m} |-> vb[v]])

\* the yardage values of the rows of Play that pass a filter, with copies
ValueBag(rows, col) ==
    LET vals == {Val(pb[col]) : pb \in rows}
    IN  [v \in vals |->
            SumFn([pb \in {x \in rows : Val(x[col]) = v} |-> Play[pb]],
                  {x \in rows : Val(x[col]) = v})]

\* a median that takes the lower middle value of an even-sized array
PercentileCont50LowerMiddle(vec) == <<vec[(Len(vec) + 1) \div 2], 1>>

\* percentile_cont(0.5) of a sorted non-empty array, as <<numerator, denominator>>
PercentileCont50(vec) ==
    LET n == Len(vec)
    IN  IF n % 2 = 1 THEN <<vec[(n + 1) \div 2], 1>>
        ELSE <<vec[n \div 2] + vec[n \div 2 + 1], 2>>

RECURSIVE SeqSum(_)
SeqSum(seq) == IF seq = <<>> THEN 0 ELSE Head(seq) + SeqSum(Tail(seq))

\* AVG(x), as <<sum, count>>
Avg(vec) == <<SeqSum(vec), Len(vec)>>

\* CASE WHEN vec IS NULL THEN NULL ELSE ... END; array_agg of no row is NULL
MedianOf(vec) == IF vec = <<>> THEN Null ELSE Some(PercentileCont50(vec))
AverageOf(vec) == IF vec = <<>> THEN Null ELSE Some(Avg(vec))

\* the row of CTE "final" for one Player row: GROUP BY p.id over
\* "Player" p LEFT JOIN "Play" pb ON p.pfr_id IN (passer, rusher, receiver)
MedianRow(p, season) ==
    LET joined   == {pb \in DOMAIN Play : p.pfr_id \in Roles(pb)}
        pass_vec == SortedVec(ValueBag(
                        {pb \in joined : PassVecFilter(pb, season, p.pfr_id)},
                        "passing_yards"))
        rush_vec == SortedVec(ValueBag(
                        {pb \in joined : RushVecFilter(pb, season, p.pfr_id)},
                        "rushing_yards"))
        recv_vec == SortedVec(ValueBag(
                        {pb \in joined : RecvVecFilter(pb, season, p.pfr_id)},
                        "receiving_yards"))
    IN  [playerId |-> p.id, season |-> season,
         median_yards_per_pass_attempt |-> MedianOf(pass_vec),
         average_yards_per_pass_attempt |-> AverageOf(pass_vec),
         median_yards_per_rushing_attempt |-> MedianOf(rush_vec),
         average_yards_per_rushing_attempt |-> AverageOf(rush_vec),
         median_yards_per_reception |-> MedianOf(recv_vec),
         average_yards_per_reception |-> AverageOf(recv_vec)]

MedianRows(season) == {MedianRow(p, season) : p \in Player}

\* the statement with a plain INSERT in place of ON CONFLICT DO UPDATE
MediansInsertOnly(season) == InsertRows(PlayerStats, MedianRows(season))

\* calculate_medians_for_season(season): the PlayerStats table after the
\* INSERT ... SELECT * FROM final ON CONFLICT ("playerId", season) DO UPDATE
MediansResult(season) == Upsert(PlayerStats, MedianRows(season), PlayerSeasonKey)

CalculateMediansForSeason(season) ==
    /\ PlayerStats' = MediansResult(season)
    /\ last' = [op |-> "medians", season |-> season, before |-> PlayerStats,
                again |-> (last.op = "medians" /\ last.season = season)]

-----------------------------------------------------------------------------
(* Player Resolver: populate_players_from_pbp.py *)

\* nfl.import_seasonal_rosters: player_name by GSIS id
RosterName == [p \in {"q", "r"} |-> IF p = "q" THEN "Quinn" ELSE "Reed"]

\* players_query: the distinct (player_id, player_name) of the season's plays
PlayersFromPbp(year) ==
    LET rows == {pb \in DOMAIN Play : pb.season = year}
    IN  {<<pb.passer_player_id, pb.passer_player_name>> :
            pb \in {x \in rows : x.passer_player_id # NullId
                                 /\ x.passer_player_name # NullId}}
        \cup
        {<<pb.rusher_player_id, pb.rusher_player_name>> :
            pb \in {x \in rows : x.rusher_player_id # NullId
                                 /\ x.rusher_player_name # NullId}}
        \cup
        {<<pb.receiver_player_id, pb.receiver_player_name>> :
            pb \in {x \in rows : x.receiver_player_id # NullId
                                 /\ x.receiver_player_name # NullId}}

\* players_to_insert after drop_duplicates(subset=['pfr_id']): one record per
\* participant with a roster position; roster = "error" leaves the lookups empty
PlayersToInsert(year, roster) ==
    LET found == PlayersFromPbp(year)
        ids   == {pn[1] : pn \in found}
        known == IF roster = "ok" THEN DOMAIN RosterPosition ELSE {}
    IN  {[pfr_id |-> id,
          name |-> RosterName[id],
          position |-> RosterPosition[id]] : id \in ids \cap known}

\* the serial id a new Player row gets: rows are inserted in pfr_id order
NewPlayerId(pfr, newIds) ==
    Cardinality(Player)
      + Cardinality({x \in newIds : PfrIndex(x) <= PfrIndex(pfr)})

\* the same INSERT without its ON CONFLICT clause, on a table with no unique
\* index on pfr_id: every record becomes a new row
MergePlayersInsertOnly(records) ==
    LET newIds == {r.pfr_id : r \in records}
    IN  Player
        \cup {[id |-> NewPlayerId(r.pfr_id, newIds), pfr_id |-> r.pfr_id,
               name |-> r.name, position |-> r.position] : r \in records}

\* INSERT INTO "Player" ... ON CONFLICT (pfr_id) DO UPDATE SET name, team, position
MergePlayers(records) ==
    LET stored == {p.pfr_id : p \in Player}
        newIds == {r.pfr_id : r \in records} \ stored
        upd(p) == IF \E r \in records : r.pfr_id = p.pfr_id
                  THEN LET r == CHOOSE x \in records : x.pfr_id = p.pfr_id
                       IN  [p EXCEPT !.name = r.name, !.position = r.position]
                  ELSE p
    IN  {upd(p) : p \in Player}
        \cup {[id |-> NewPlayerId(r.pfr_id, newIds), pfr_id |-> r.pfr_id,
               name |-> r.name, position |-> r.position] :
                 r \in {x \in records : x.pfr_id \in newIds}}

PopulatePlayersFromPbp(year, roster) ==
    /\ Player' = MergePlayers(PlayersToInsert(year, roster))
    /\ last' = [op |-> "players", season |-> year, roster |-> roster,
                before |-> Player]

-----------------------------------------------------------------------------
(* Game-Week Aggregator: fix_2025_gamestat_weeks_fast.py *)

\* the efficiency columns no boxscore writer sets
EpaCols ==
    {"epa", "success_rate",
     "passing_epa", "passing_epa_per_play", "passing_success_rate",
     "rushing_epa", "rushing_epa_per_play", "rushing_success_rate",
     "receiving_epa", "receiving_epa_per_play", "receiving_success_rate"}

NullEpa == [c \in EpaCols |-> Null]

\* CTE player_weeks: the distinct (player, season, week, game_date) of the
\* year's plays with a week, for the participants stored in Player
PlayerWeeks(year) ==
    {[player_id |-> j[1].id, pfr_id |-> j[1].pfr_id, season |-> j[2].season,
      week |-> j[2].week, game_date |-> j[2].game_date] :
        j \in {jj \in Player \X DOMAIN Play :
                 /\ jj[1].pfr_id \in Roles(jj[2])
                 /\ jj[2].season = year
                 /\ ~IsNull(jj[2].week)}}

\* pass_attempt = true AND sack = false AND play_type NOT IN ('qb_spike')
PassingAttempt(pb, pfr) ==
    /\ pb.passer_player_id = pfr
    /\ pb.pass_attempt
    /\ ~pb.sack
    /\ pb.play_type # NullId /\ pb.play_type # "qb_spike"

\* a total divided by the number of rows it was taken over
SumColPerRow(rows, col) ==
    IF rows = {} THEN 0
    ELSE BagSumOver(Play, {pb \in rows : ~IsNull(pb[col])},
                    LAMBDA pb : Val(pb[col]))
           \div BagSumOver(Play, rows, LAMBDA pb : 1)

\* SUM(CASE WHEN <row in rows> THEN <col> ELSE 0 END): NULL yardage adds nothing
SumCol(rows, col) ==
    BagSumOver(Play, {pb \in rows : ~IsNull(pb[col])}, LAMBDA pb : Val(pb[col]))

\* SUM(CASE WHEN <row in rows> THEN 1 ELSE 0 END)
CountRows(rows) == BagSumOver(Play, rows, LAMBDA pb : 1)

\* COALESCE(AVG(CASE WHEN <row in rows> THEN cpoe END), 0) as <<sum, count>>
AvgCpoe(rows) ==
    LET vals == {pb \in rows : ~IsNull(pb.cpoe)}
    IN  IF vals = {} THEN <<0, 1>>
        ELSE <<SumCol(vals, "cpoe"), CountRows(vals)>>

\* CTE aggregated: one row per player-week over
\* player_weeks pw LEFT JOIN "Play" pb ON season, week and one of the roles
Aggregated(pw) ==
    LET J    == {pb \in DOMAIN Play :
                   /\ pb.season = pw.season
                   /\ pb.week = pw.week
                   /\ pw.pfr_id \in Roles(pb)}
        pass == {pb \in J : PassingAttempt(pb, pw.pfr_id)}
        asP  == {pb \in J : pb.passer_player_id = pw.pfr_id}
        rush == {pb \in J : pb.rusher_player_id = pw.pfr_id /\ pb.rush_attempt}
        asR  == {pb \in J : pb.rusher_player_id = pw.pfr_id}
        recv == {pb \in J : pb.receiver_player_id = pw.pfr_id}
    IN  [playerId |-> pw.player_id, season |-> pw.season, week |-> pw.week,
         gameDate |-> pw.game_date, games |-> Null,
         passingYds |-> SumCol(pass, "passing_yards"),
         passing_tds |-> CountRows({pb \in pass : pb.pass_touchdown}),
         passing_sacks |-> CountRows({pb \in asP : pb.sack}),
         passing_interceptions |->
             CountRows({pb \in asP : pb.pass_attempt /\ pb.interception}),
         passing_attempts |-> CountRows(pass),
         passing_completions |-> CountRows({pb \in asP : pb.complete_pass}),
         rushingYds |-> SumCol(rush, "rushing_yards"),
         rushing_attempts |-> CountRows(rush),
         rushing_tds |-> CountRows({pb \in asR : pb.rush_touchdown}),
         receivingYds |-> SumCol(recv, "receiving_yards"),
         receiving_tds |-> CountRows({pb \in recv : pb.pass_touchdown}),
         receptions |-> CountRows({pb \in recv : pb.complete_pass}),
         targets |-> CountRows({pb \in recv : pb.pass_attempt}),
         cpoe |-> Some(AvgCpoe(pass))] @@ NullEpa

\* WHERE passing_yds > 0 OR rushing_yds > 0 OR receiving_yds > 0
Emitted(row) ==
    row.passingYds > 0 \/ row.rushingYds > 0 \/ row.receivingYds > 0

\* insert_all_stats: the rows the INSERT ... SELECT writes
WeeklyRows(year) ==
    {row \in {Aggregated(pw) : pw \in PlayerWeeks(year)} : Emitted(row)}

\* the same rebuild with a DELETE that has no WHERE clause
RebuildGameStatEverySeason(year) ==
    InsertRows(EmptyBag, WeeklyRows(year))

\* DELETE FROM "GameStat" WHERE season = year, then the INSERT, one commit
RebuildGameStat(year) ==
    InsertRows(BagFilter(GameStat, LAMBDA gs : gs.season # year),
               WeeklyRows(year))

\* where the script can fail: nowhere, in the DELETE, or in the INSERT
RebuildFaults == {"none", "delete", "insert"}

\* the same script on a connection that commits each statement by itself
RebuildGameStatAutocommit(year, fault) ==
    IF fault = "none" THEN [gamestat |-> RebuildGameStat(year), exit |-> 0]
    ELSE IF fault = "delete" THEN [gamestat |-> GameStat, exit |-> 1]
    ELSE [gamestat |-> BagFilter(GameStat, LAMBDA gs : gs.season # year),
          exit |-> 1]

\* the module body: DELETE and INSERT run in the transaction the connection
\* began, conn.commit() follows the INSERT, and an exception leaves the with
\* block, which closes the connection and rolls back
RebuildGameStatScript(year, fault) ==
    IF fault = "none" THEN [gamestat |-> RebuildGameStat(year), exit |-> 0]
    ELSE [gamestat |-> GameStat, exit |-> 1]

-----------------------------------------------------------------------------
(* Sacks and interceptions: populate_2025_int_sacks_fast.py *)

\* SELECT COUNT(*) FROM "Play" p INNER JOIN "Player" pl
\* ON pl.pfr_id = p.passer_player_id WHERE pl.id = gs."playerId" AND
\* p.season = gs.season AND p.week = gs.week; a NULL gs.week matches no play
PasserPlays(gs) ==
    {pb \in DOMAIN Play :
        /\ \E pl \in Player : pl.pfr_id = pb.passer_player_id
                              /\ pl.id = gs.playerId
        /\ pb.season = gs.season
        /\ ~IsNull(gs.week) /\ pb.week = gs.week}

SacksIntRow(gs, year) ==
    IF gs.season # year THEN gs
    ELSE [gs EXCEPT
            !.passing_sacks = CountRows({pb \in PasserPlays(gs) : pb.sack}),
            !.passing_interceptions =
                CountRows({pb \in PasserPlays(gs) :
                             pb.pass_attempt /\ pb.interception})]

\* update_query: UPDATE "GameStat" gs SET ... WHERE gs.season = year
PopulateSacksInt(year) ==
    BagOfAll(LAMBDA gs : SacksIntRow(gs, year), GameStat)

-----------------------------------------------------------------------------
(* Weekly EPA: calculate_weekly_epa.py *)

\* ('epa', 'sum'): pandas skips NaN, and the sum of no values is 0
EpaSum(rows) ==
    SumFn([u \in rows |-> IF IsNull(u.epa) THEN 0 ELSE Val(u.epa)], rows)

\* ('success', 'sum') after fillna(0).astype(int)
SuccessSum(rows) == SumFn([u \in rows |-> u.success], rows)

\* a variant that stores a role EPA of zero as no value
RoleEpaZeroAsNull(rows) ==
    LET n == Cardinality(rows)
    IN  IF n = 0 \/ EpaSum(rows) = 0
        THEN [epa |-> Null, per_play |-> Null, success_rate |-> Null]
        ELSE [epa |-> Some(EpaSum(rows)),
              per_play |-> Some(<<EpaSum(rows), n>>),
              success_rate |-> Some(<<SuccessSum(rows) * 100, n>>)]

\* one role's three columns of a merged row; a role with no group is NaN
RoleEpa(rows) ==
    LET n == Cardinality(rows)
    IN  IF n = 0
        THEN [epa |-> Null, per_play |-> Null, success_rate |-> Null]
        ELSE [epa |-> Some(EpaSum(rows)),
              per_play |-> Some(<<EpaSum(rows), n>>),
              success_rate |-> Some(<<SuccessSum(rows) * 100, n>>)]

\* merged with the passing mask of the Game-Week Aggregator: pass attempts
\* that are neither a sack nor a spike
MergedRowBoxscoreMask(pbp, pfr, week) ==
    LET pass  == {u \in pbp : u.pass_attempt /\ ~u.sack
                              /\ u.play_type # "qb_spike"
                              /\ u.passer_player_id = pfr /\ u.week = week}
        rush  == {u \in pbp : u.rush_attempt /\ u.rusher_player_id = pfr
                              /\ u.week = week}
        recv  == {u \in pbp : u.pass_attempt /\ u.receiver_player_id = pfr
                              /\ u.week = week}
        total == Cardinality(pass) + Cardinality(rush) + Cardinality(recv)
        P     == RoleEpa(pass)
        R     == RoleEpa(rush)
        V     == RoleEpa(recv)
    IN  [total_plays |-> total,
         passing_epa |-> P.epa, passing_epa_per_play |-> P.per_play,
         passing_success_rate |-> P.success_rate,
         rushing_epa |-> R.epa, rushing_epa_per_play |-> R.per_play,
         rushing_success_rate |-> R.success_rate,
         receiving_epa |-> V.epa, receiving_epa_per_play |-> V.per_play,
         receiving_success_rate |-> V.success_rate,
         epa |-> IF total = 0 THEN Null
                 ELSE Some(EpaSum(pass) + EpaSum(rush) + EpaSum(recv)),
         success_rate |->
             IF total = 0 THEN Null
             ELSE Some(<<(SuccessSum(pass) + SuccessSum(rush)
                            + SuccessSum(recv)) * 100, total>>)]

\* the row of merged for (pfr_id, week): the provider's plays grouped by
\* passer, rusher and receiver under the masks pass_attempt, rush_attempt
\* and pass_attempt
MergedRow(pbp, pfr, week) ==
    LET pass  == {u \in pbp : u.pass_attempt /\ u.passer_player_id = pfr
                              /\ u.week = week}
        rush  == {u \in pbp : u.rush_attempt /\ u.rusher_player_id = pfr
                              /\ u.week = week}
        recv  == {u \in pbp : u.pass_attempt /\ u.receiver_player_id = pfr
                              /\ u.week = week}
        total == Cardinality(pass) + Cardinality(rush) + Cardinality(recv)
        P     == RoleEpa(pass)
        R     == RoleEpa(rush)
        V     == RoleEpa(recv)
    IN  [total_plays |-> total,
         passing_epa |-> P.epa, passing_epa_per_play |-> P.per_play,
         passing_success_rate |-> P.success_rate,
         rushing_epa |-> R.epa, rushing_epa_per_play |-> R.per_play,
         rushing_success_rate |-> R.success_rate,
         receiving_epa |-> V.epa, receiving_epa_per_play |-> V.per_play,
         receiving_success_rate |-> V.success_rate,
         epa |-> IF total = 0 THEN Null
                 ELSE Some(EpaSum(pass) + EpaSum(rush) + EpaSum(recv)),
         success_rate |->
             IF total = 0 THEN Null
             ELSE Some(<<(SuccessSum(pass) + SuccessSum(rush)
                            + SuccessSum(recv)) * 100, total>>)]

\* an update that writes the whole row, cpoe included, from merged
WeeklyEpaRowWholeRow(gs, year, pbp) ==
    IF gs.season # year \/ IsNull(gs.week)
       \/ ~\E pl \in Player : pl.id = gs.playerId
    THEN gs
    ELSE LET pl == CHOOSE x \in Player : x.id = gs.playerId
             m  == MergedRow(pbp, pl.pfr_id, gs.week)
         IN  IF m.total_plays = 0 THEN gs
             ELSE [c \in DOMAIN gs |-> IF c \in EpaCols THEN m[c]
                                       ELSE IF c = "cpoe" THEN Null
                                       ELSE gs[c]]

\* update_sql on one GameStat row: rows of the season with a week, whose
\* player has a merged row for that week, get the eleven columns
WeeklyEpaRow(gs, year, pbp) ==
    IF gs.season # year \/ IsNull(gs.week)
       \/ ~\E pl \in Player : pl.id = gs.playerId
    THEN gs
    ELSE LET pl == CHOOSE x \in Player : x.id = gs.playerId
             m  == MergedRow(pbp, pl.pfr_id, gs.week)
         IN  IF m.total_plays = 0 THEN gs
             ELSE [c \in DOMAIN gs |-> IF c \in EpaCols THEN m[c] ELSE gs[c]]

\* the verification query's groups: "GameStat" gs JOIN "Player" p JOIN
\* "AdvancedMetrics" am ON am."playerId" = p.id AND am.season = gs.season
\* WHERE gs.season = year AND gs.week IS NOT NULL, GROUP BY p.name, p.pfr_id,
\* am.rushing_epa, am.receiving_epa
VerificationGroups(gamestat, metrics, year) ==
    {[pl |-> j[1], am |-> j[2]] :
        j \in {jj \in Player \X DOMAIN metrics :
                 /\ jj[2].playerId = jj[1].id
                 /\ jj[2].season = year
                 /\ \E g \in DOMAIN gamestat :
                       g.playerId = jj[1].id /\ g.season = year
                       /\ ~IsNull(g.week)}}

\* HAVING ABS(COALESCE(am.x, 0) - COALESCE(SUM(gs.x), 0)) > 0.1
VerificationDiffers(gamestat, grp, year, col) ==
    LET rows   == {g \in DOMAIN gamestat :
                      g.playerId = grp.pl.id /\ g.season = year
                      /\ ~IsNull(g.week) /\ ~IsNull(g[col])}
        weekly == SumFn([g \in rows |-> gamestat[g] * Val(g[col])], rows)
        season == IF IsNull(grp.am[col]) THEN 0 ELSE Val(grp.am[col])
        diff   == season - weekly
    IN  10 * (IF diff < 0 THEN 0 - diff ELSE diff) > 1

\* LIMIT 5
VerificationLimit == 5

\* the sets of players the verification can print: the groups that pass
\* HAVING, cut to any five of them when there are more
VerificationReports(gamestat, metrics, year) ==
    LET hits == {grp.pl.pfr_id :
                    grp \in {x \in VerificationGroups(gamestat, metrics, year) :
                        \/ VerificationDiffers(gamestat, x, year, "rushing_epa")
                        \/ VerificationDiffers(gamestat, x, year,
                                               "receiving_epa")}}
    IN  IF Cardinality(hits) <= VerificationLimit THEN {hits}
        ELSE {S \in SUBSET hits : Cardinality(S) = VerificationLimit}

\* calculate_weekly_epa: a failed or empty fetch returns before any write
CalculateWeeklyEpa(year, fetch) ==
    LET pbp == FetchPbp(year)
    IN  IF fetch = "error" \/ pbp = {} THEN GameStat
        ELSE BagOfAll(LAMBDA gs : WeeklyEpaRow(gs, year, pbp), GameStat)

-----------------------------------------------------------------------------
(* CPOE overlay: update_weekly_cpoe.py *)

\* nfl.import_ngs_data('passing', [year]); week 0 is the provider's season row
NgsPassing(year) ==
    IF year = CurrentSeason
    THEN << [player_gsis_id |-> "q", week |-> Some(0), cpoe |-> Some(4)],
            [player_gsis_id |-> "q", week |-> Some(1), cpoe |-> Some(7)],
            [player_gsis_id |-> "x", week |-> Some(2), cpoe |-> Some(1)],
            [player_gsis_id |-> "r", week |-> Some(1), cpoe |-> Null] >>
    ELSE << [player_gsis_id |-> "q", week |-> Some(1), cpoe |-> Some(3)] >>

\* the GameStat rows one UPDATE ... WHERE "playerId", season, week touches
CpoeTargets(gs, row, year, player_id_map) ==
    IF IsNull(row.week) \/ IsNull(row.cpoe)
       \/ row.player_gsis_id \notin DOMAIN player_id_map
    THEN {}
    ELSE {g \in DOMAIN gs :
            /\ g.playerId = player_id_map[row.player_gsis_id]
            /\ g.season = year
            /\ g.week = row.week}

RECURSIVE CpoeLoop(_, _, _, _, _)
\* the loop over weekly_ngs, each UPDATE committed on its own; rows i..n
CpoeLoop(rows, i, n, year, st) ==
    IF i > n THEN st
    ELSE LET hit == CpoeTargets(st.gamestat, rows[i], year, st.player_id_map)
             gs2 == BagOfAll(LAMBDA g : IF g \in hit
                                        THEN [g EXCEPT !.cpoe =
                                                Some(<<Val(rows[i].cpoe), 1>>)]
                                        ELSE g,
                             st.gamestat)
         IN  CpoeLoop(rows, i + 1, n, year,
                      [st EXCEPT !.gamestat = gs2,
                                 !.updates = IF hit = {} THEN @ ELSE @ + 1])

\* update_weekly_cpoe and its exit code; died = k > 0 is the process dying
\* after k rows were handled (their updates are committed)
UpdateWeeklyCpoe(year, fetch, died) ==
    LET ngs  == NgsPassing(year)
        rows == SelectSeq(ngs, LAMBDA r : ~IsNull(r.week))
        map  == [pfr \in {pl.pfr_id : pl \in Player} |->
                    (CHOOSE pl \in Player : pl.pfr_id = pfr).id]
        st0  == [gamestat |-> GameStat, updates |-> 0, player_id_map |-> map]
        n    == IF died > 0 THEN died ELSE Len(rows)
        st   == CpoeLoop(rows, 1, n, year, st0)
    IN  IF fetch = "error" \/ Len(ngs) = 0 \/ Len(rows) = 0
        THEN [gamestat |-> GameStat, updates |-> 0, exit |-> 1]
        ELSE [gamestat |-> st.gamestat, updates |-> st.updates,
              exit |-> IF died > 0 THEN 1
                       ELSE IF st.updates > 0 THEN 0 ELSE 1]

-----------------------------------------------------------------------------
(* Seasonal EPA of the current season: populate_2025_all_positions.py *)

\* execute_values sends the rows in pages of 100, one INSERT per page
PageSize == 100

\* groupby iterates its keys in sorted order
SortedIds(S) == SelectSeq(PfrOrder, LAMBDA p : p \in S)

ZeroEpa ==
    [passing_epa |-> 0, rushing_epa |-> 0, receiving_epa |-> 0,
     passing_count |-> 0, rushing_count |-> 0, receiving_count |-> 0,
     passing_success |-> 0, rushing_success |-> 0, receiving_success |-> 0,
     cpoe_sum |-> 0, cpoe_count |-> 0]

\* player_epa is a dict in insertion order: its keys and their records
NoPlayerEpa == [order |-> <<>>, data |-> <<>>]

\* if key not in player_epa: player_epa[key] = {...zeros...}
Touch(pe, key) ==
    IF key \in DOMAIN pe.data THEN pe
    ELSE [order |-> Append(pe.order, key), data |-> pe.data @@ (key :> ZeroEpa)]

\* lines 61-75: the passing sums are written inside "if key not in player_epa"
AddPassing(pe, pbp, key) ==
    IF key \in DOMAIN pe.data THEN pe
    ELSE LET group == {u \in pbp : u.passer_player_id = key /\ u.pass_attempt}
             cpoes == {u \in group : ~IsNull(u.cpoe)}
             pe1   == Touch(pe, key)
         IN  [pe1 EXCEPT !.data[key] =
                [@ EXCEPT !.passing_epa = @ + EpaSum(group),
                          !.passing_count = @ + Cardinality(group),
                          !.passing_success = @ + SuccessSum(group),
                          !.cpoe_sum = @ + SumFn([u \in cpoes |-> Val(u.cpoe)],
                                                 cpoes),
                          !.cpoe_count = @ + Cardinality(cpoes)]]

RECURSIVE AddRushing(_, _, _, _)
\* lines 78-95, for the known rushers ids[i..]
AddRushing(pe, pbp, ids, i) ==
    IF i > Len(ids) THEN pe
    ELSE LET key   == ids[i]
             group == {u \in pbp : u.rusher_player_id = key /\ u.rush_attempt}
             pe1   == Touch(pe, key)
         IN  AddRushing(
                [pe1 EXCEPT !.data[key] =
                    [@ EXCEPT !.rushing_epa = @ + EpaSum(group),
                              !.rushing_count = @ + Cardinality(group),
                              !.rushing_success = @ + SuccessSum(group)]],
                pbp, ids, i + 1)

RECURSIVE AddReceiving(_, _, _, _)
\* lines 98-115, for the known receivers ids[i..]
AddReceiving(pe, pbp, ids, i) ==
    IF i > Len(ids) THEN pe
    ELSE LET key   == ids[i]
             group == {u \in pbp : u.receiver_player_id = key /\ u.pass_attempt}
             pe1   == Touch(pe, key)
         IN  AddReceiving(
                [pe1 EXCEPT !.data[key] =
                    [@ EXCEPT !.receiving_epa = @ + EpaSum(group),
                              !.receiving_count = @ + Cardinality(group),
                              !.receiving_success = @ + SuccessSum(group)]],
                pbp, ids, i + 1)

\* lines 118-168: the record appended to all_metrics for one key
MetricsRecord(player_id, d) ==
    LET total_epa   == d.passing_epa + d.rushing_epa + d.receiving_epa
        total_plays == d.passing_count + d.rushing_count + d.receiving_count
        total_succ  == d.passing_success + d.rushing_success
                         + d.receiving_success
        opt(n, v)   == IF n > 0 THEN Some(v) ELSE Null
    IN  [playerId |-> player_id, season |-> CurrentSeason,
         total_plays |-> total_plays,
         epa |-> Some(total_epa),
         epa_per_play |-> Some(<<total_epa, total_plays>>),
         passing_epa |-> opt(d.passing_count, d.passing_epa),
         rushing_epa |-> opt(d.rushing_count, d.rushing_epa),
         receiving_epa |-> opt(d.receiving_count, d.receiving_epa),
         passing_epa_per_play |->
             opt(d.passing_count, <<d.passing_epa, d.passing_count>>),
         rushing_epa_per_play |->
             opt(d.rushing_count, <<d.rushing_epa, d.rushing_count>>),
         receiving_epa_per_play |->
             opt(d.receiving_count, <<d.receiving_epa, d.receiving_count>>),
         passing_success_rate |->
             opt(d.passing_count, <<d.passing_success * 100, d.passing_count>>),
         rushing_success_rate |->
             opt(d.rushing_count, <<d.rushing_success * 100, d.rushing_count>>),
         receiving_success_rate |->
             opt(d.receiving_count,
                 <<d.receiving_success * 100, d.receiving_count>>),
         success_rate |-> Some(<<total_succ * 100, total_plays>>),
         cpoe |-> opt(d.cpoe_count, <<d.cpoe_sum, d.cpoe_count>>)]

\* the columns of "AdvancedMetrics" the INSERT names
MetricsCols == DOMAIN MetricsRecord(0, ZeroEpa) \ {"total_plays"}

\* lines 118-168: one pass over player_epa; keys with no play are skipped
MetricsOf(pe, players_by_pfr_id) ==
    LET all  == [k \in 1..Len(pe.order) |->
                    MetricsRecord(players_by_pfr_id[pe.order[k]],
                                  pe.data[pe.order[k]])]
        kept == SelectSeq(all, LAMBDA m : m.total_plays # 0)
    IN  [k \in 1..Len(kept) |-> [c \in MetricsCols |-> kept[k][c]]]

RECURSIVE PasserLoop(_, _, _, _, _)
\* lines 54-168: the rushing loop, the receiving loop and the loop that
\* appends to all_metrics are in the body of the loop over the passers
PasserLoop(st, pbp, players_by_pfr_id, passers, i) ==
    IF i > Len(passers) THEN st
    ELSE LET known == DOMAIN players_by_pfr_id
             rushers   == SortedIds({u.rusher_player_id :
                              u \in {x \in pbp : x.rush_attempt}} \cap known)
             receivers == SortedIds({u.receiver_player_id :
                              u \in {x \in pbp : x.pass_attempt}} \cap known)
             pe1 == AddPassing(st.player_epa, pbp, passers[i])
             pe2 == AddRushing(pe1, pbp, rushers, 1)
             pe3 == AddReceiving(pe2, pbp, receivers, 1)
         IN  PasserLoop([player_epa |-> pe3,
                         all_metrics |-> st.all_metrics
                                           \o MetricsOf(pe3, players_by_pfr_id)],
                        pbp, players_by_pfr_id, passers, i + 1)

\* all_metrics of the run; a failed or empty fetch leaves it empty
AllMetrics(fetch) ==
    LET pbp     == FetchPbp(CurrentSeason)
        map     == [pfr \in {pl.pfr_id : pl \in Player} |->
                       (CHOOSE pl \in Player : pl.pfr_id = pfr).id]
        passers == SortedIds({u.passer_player_id :
                       u \in {x \in pbp : x.pass_attempt}} \cap DOMAIN map)
    IN  IF fetch = "error" \/ pbp = {} THEN <<>>
        ELSE PasserLoop([player_epa |-> NoPlayerEpa, all_metrics |-> <<>>],
                        pbp, map, passers, 1).all_metrics

\* the rows of page j of execute_values
Page(values, j) ==
    {k \in 1..Len(values) : (j - 1) * PageSize < k /\ k <= j * PageSize}

\* ON CONFLICT DO UPDATE cannot affect a row a second time in one INSERT
PageFails(values, j) ==
    \E a, b \in Page(values, j) :
        a # b /\ KeyOf(values[a], PlayerSeasonKey)
                   = KeyOf(values[b], PlayerSeasonKey)

RECURSIVE ApplyPages(_, _, _)
ApplyPages(B, values, j) ==
    IF Page(values, j) = {} THEN B
    ELSE ApplyPages(Upsert(B, {values[k] : k \in Page(values, j)},
                           PlayerSeasonKey),
                    values, j + 1)

\* the script and its exit code: the commit follows the last page, so a
\* failing page leaves AdvancedMetrics as it was
PopulateAllPositions(fetch) ==
    LET values == AllMetrics(fetch)
        pages  == 1..((Len(values) + PageSize - 1) \div PageSize)
    IN  IF \E j \in pages : PageFails(values, j)
        THEN [metrics |-> AdvancedMetrics, exit |-> 1]
        ELSE [metrics |-> ApplyPages(AdvancedMetrics, values, 1), exit |-> 0]

-----------------------------------------------------------------------------
(* Seasonal EPA of an earlier season: populate_historical_advanced_metrics.py *)

\* the weekly rows of one player: WHERE season = %s AND week IS NOT NULL
\* GROUP BY "playerId"
WeeklyRowsOf(gamestat, player_id, season) ==
    {g \in DOMAIN gamestat :
        g.playerId = player_id /\ g.season = season /\ ~IsNull(g.week)}

\* SUM(col) over a group: NULLs are skipped, and the sum of no value is NULL
SumOrNull(gamestat, rows, col) ==
    LET vals == {g \in rows : ~IsNull(g[col])}
    IN  IF vals = {} THEN Null
        ELSE Some(SumFn([g \in vals |-> gamestat[g] * Val(g[col])], vals))

RECURSIVE RatSum(_, _, _)
\* the sum of the fractions col holds in rows, as <<numerator, denominator>>
RatSum(gamestat, rows, col) ==
    IF rows = {} THEN <<0, 1>>
    ELSE LET g    == CHOOSE x \in rows : TRUE
             v    == Val(g[col])
             rest == RatSum(gamestat, rows \ {g}, col)
         IN  <<gamestat[g] * v[1] * rest[2] + rest[1] * v[2], v[2] * rest[2]>>

\* AVG(col) over a group: NULLs are skipped, and the average of no value is NULL
AvgOrNull(gamestat, rows, col) ==
    LET vals == {g \in rows : ~IsNull(g[col])}
        n    == SumFn([g \in vals |-> gamestat[g]], vals)
        sum  == RatSum(gamestat, vals, col)
    IN  IF vals = {} THEN Null ELSE Some(<<sum[1], sum[2] * n>>)

\* lines 123-125: x if x != 0 else None
NonZeroOrNull(x) == IF ~IsNull(x) /\ Val(x) = 0 THEN Null ELSE x

\* lines 97-135: the record of one player of one season, and whether the
\* loop appends it
HistoricalRecord(gamestat, player_id, season) ==
    LET rows == WeeklyRowsOf(gamestat, player_id, season)
        passing_epa   == SumOrNull(gamestat, rows, "passing_epa")
        rushing_epa   == SumOrNull(gamestat, rows, "rushing_epa")
        receiving_epa == SumOrNull(gamestat, rows, "receiving_epa")
        total_epa     == SumOrNull(gamestat, rows, "epa")
        plays(x)      == IF ~IsNull(x) /\ Val(x) # 0 THEN 1 ELSE 0
        total_plays   == plays(passing_epa) + plays(rushing_epa)
                           + plays(receiving_epa)
    IN  [total_plays |-> total_plays,
         playerId |-> player_id, season |-> season,
         epa |-> total_epa,
         epa_per_play |-> IF ~IsNull(total_epa) /\ total_plays > 0
                          THEN Some(<<Val(total_epa), total_plays>>)
                          ELSE Null,
         passing_epa |-> NonZeroOrNull(passing_epa),
         rushing_epa |-> NonZeroOrNull(rushing_epa),
         receiving_epa |-> NonZeroOrNull(receiving_epa),
         passing_epa_per_play |->
             AvgOrNull(gamestat, rows, "passing_epa_per_play"),
         rushing_epa_per_play |->
             AvgOrNull(gamestat, rows, "rushing_epa_per_play"),
         receiving_epa_per_play |->
             AvgOrNull(gamestat, rows, "receiving_epa_per_play"),
         success_rate |-> AvgOrNull(gamestat, rows, "success_rate"),
         passing_success_rate |->
             AvgOrNull(gamestat, rows, "passing_success_rate"),
         rushing_success_rate |->
             AvgOrNull(gamestat, rows, "rushing_success_rate"),
         receiving_success_rate |->
             AvgOrNull(gamestat, rows, "receiving_success_rate"),
         cpoe |-> AvgOrNull(gamestat, rows, "cpoe")]

\* lines 59-149: all_metrics for the seasons; a season whose query raises
\* adds nothing
HistoricalMetrics(gamestat, seasons, failing) ==
    LET groups == {<<g.playerId, g.season>> :
                      g \in {x \in DOMAIN gamestat :
                               x.season \in seasons \ failing
                               /\ ~IsNull(x.week)}}
        all    == {HistoricalRecord(gamestat, k[1], k[2]) : k \in groups}
    IN  {[c \in MetricsCols |-> m[c]] : m \in {x \in all : x.total_plays # 0}}

\* the script: DELETE of the seasons' rows, committed (lines 49-53), then the
\* upsert of all_metrics in one statement (lines 152-199)
PopulateHistoricalMetrics(metrics, gamestat, seasons, failing) ==
    Upsert(BagFilter(metrics, LAMBDA m : m.season \notin seasons),
           HistoricalMetrics(gamestat, seasons, failing), PlayerSeasonKey)

-----------------------------------------------------------------------------
(* Seasonal loader: load_seasonal_data_fast.py *)

BlankSeasonal ==
    [player_id |-> "q", games |-> 1,
     attempts |-> 0, completions |-> 0, passing_yards |-> 0, sacks |-> 0,
     interceptions |-> 0, passing_tds |-> 0,
     carries |-> 0, rushing_yards |-> 0, rushing_tds |-> 0,
     targets |-> 0, receptions |-> 0, receiving_yards |-> 0,
     receiving_tds |-> 0,
     passing_epa |-> Some(0), rushing_epa |-> Some(0),
     receiving_epa |-> Some(0)]

\* nfl.import_seasonal_data([year], s_type='REG'): the provider's totals of
\* the regular-season plays, one row per player_id
SeasonalData(year) ==
    IF year = CurrentSeason
    THEN << [BlankSeasonal EXCEPT !.games = 2, !.attempts = 2,
                !.completions = 2, !.passing_yards = 15, !.sacks = 1],
            [BlankSeasonal EXCEPT !.player_id = "r", !.carries = 1,
                !.rushing_yards = 4, !.rushing_tds = 1, !.targets = 1,
                !.receptions = 1, !.receiving_yards = 10,
                !.rushing_epa = Some(1), !.receiving_epa = Some(2)],
            [BlankSeasonal EXCEPT !.player_id = "x", !.targets = 1,
                !.receptions = 1, !.receiving_yards = 5,
                !.passing_epa = Null, !.rushing_epa = Null,
                !.receiving_epa = Some(-2)] >>
    ELSE << [BlankSeasonal EXCEPT !.attempts = 1, !.completions = 1,
                !.passing_yards = 6, !.passing_epa = Some(2)],
            [BlankSeasonal EXCEPT !.player_id = "r", !.carries = 1,
                !.rushing_yards = 3, !.targets = 1, !.receptions = 1,
                !.receiving_yards = 6, !.rushing_epa = Some(1),
                !.receiving_epa = Some(2)] >>

SeqRange(seq) == {seq[k] : k \in 1..Len(seq)}

\* lines 30-56: the three DELETEs of clear=True
SeasonalClear(db, year) ==
    [db EXCEPT
        !.GameStat = BagFilter(@, LAMBDA g : ~(g.season = year /\ IsNull(g.week))),
        !.PlayerStats = BagFilter(@, LAMBDA r : r.season # year),
        !.AdvancedMetrics = BagFilter(@, LAMBDA r : r.season # year)]

\* a variant that never finds the season loaded
SeasonAlreadyLoadedNever(gamestat, year) == FALSE

\* lines 59-67: SELECT COUNT(*) ... WHERE season = :year AND week IS NULL > 0
SeasonAlreadyLoaded(gamestat, year) ==
    \E g \in DOMAIN gamestat : g.season = year /\ IsNull(g.week)

\* lines 209-224: the roster position, or else the one inferred from the stats
SeasonalPosition(row, roster) ==
    IF roster = "ok" /\ row.player_id \in DOMAIN RosterPosition
    THEN RosterPosition[row.player_id]
    ELSE IF row.attempts > 0 THEN "QB"
    ELSE IF row.carries > row.targets THEN "RB"
    ELSE "WR"

\* lines 201-262: unique_player_records, the first record of each pfr_id
SeasonalPlayerRecords(data, roster) ==
    {[pfr_id |-> data[k].player_id,
      name |-> IF roster = "ok" /\ data[k].player_id \in DOMAIN RosterName
               THEN RosterName[data[k].player_id] ELSE data[k].player_id,
      position |-> SeasonalPosition(data[k], roster)] :
        k \in {i \in 1..Len(data) :
                 \A j \in 1..(i - 1) : data[j].player_id # data[i].player_id}}

\* lines 84-97: cpoe_lookup; a later NGS row of a player overwrites an earlier
CpoeLookup(year, ngs) ==
    LET rows == IF ngs = "ok" THEN NgsPassing(year) ELSE <<>>
        good == {k \in 1..Len(rows) : ~IsNull(rows[k].cpoe)}
        ids  == {rows[k].player_gsis_id : k \in good}
    IN  [id \in ids |->
            LET k == CHOOSE i \in good :
                        /\ rows[i].player_gsis_id = id
                        /\ \A j \in good :
                              rows[j].player_gsis_id = id => j <= i
            IN  <<Val(rows[k].cpoe), 1>>]

\* lines 293-344: gamestat_records, one per row of seasonal_data whose player
\* is stored and has some yardage
SeasonalGameStatRecords(data, year, player_id_map, cpoe_lookup) ==
    LET keep == SelectSeq(data, LAMBDA row :
                    /\ row.player_id \in DOMAIN player_id_map
                    /\ (row.passing_yards > 0 \/ row.rushing_yards > 0
                          \/ row.receiving_yards > 0))
    IN  [k \in 1..Len(keep) |->
            [playerId |-> player_id_map[keep[k].player_id],
             season |-> year, week |-> Null, gameDate |-> NullId,
             games |-> Some(keep[k].games),
             passingYds |-> keep[k].passing_yards,
             passing_tds |-> keep[k].passing_tds,
             passing_sacks |-> keep[k].sacks,
             passing_interceptions |-> keep[k].interceptions,
             passing_attempts |-> keep[k].attempts,
             passing_completions |-> keep[k].completions,
             rushingYds |-> keep[k].rushing_yards,
             rushing_attempts |-> keep[k].carries,
             rushing_tds |-> keep[k].rushing_tds,
             receivingYds |-> keep[k].receiving_yards,
             receiving_tds |-> keep[k].receiving_tds,
             receptions |-> keep[k].receptions,
             targets |-> keep[k].targets,
             cpoe |-> IF keep[k].player_id \in DOMAIN cpoe_lookup
                      THEN Some(cpoe_lookup[keep[k].player_id]) ELSE Null]
            @@ NullEpa]

RECURSIVE CopyRows(_, _, _)
\* cursor.copy_from: every record of the frame becomes a row
CopyRows(B, records, k) ==
    IF k > Len(records) THEN B
    ELSE CopyRows(B (+) SetToBag({records[k]}), records, k + 1)

\* a float that is neither None nor 0.0 is true
Truthy(x) == ~IsNull(x) /\ Val(x)[1] # 0

\* lines 391-422: playerstats_records; the average stands in for the median
SeasonalPlayerStatsRecords(data, year, player_id_map) ==
    LET per(yds, n) == IF n > 0 THEN Some(<<yds, n>>) ELSE Null
        rec(row) ==
            [playerId |-> player_id_map[row.player_id], season |-> year,
             median_yards_per_pass_attempt |->
                 per(row.passing_yards, row.attempts),
             average_yards_per_pass_attempt |->
                 per(row.passing_yards, row.attempts),
             median_yards_per_rushing_attempt |->
                 per(row.rushing_yards, row.carries),
             average_yards_per_rushing_attempt |->
                 per(row.rushing_yards, row.carries),
             median_yards_per_reception |->
                 per(row.receiving_yards, row.receptions),
             average_yards_per_reception |->
                 per(row.receiving_yards, row.receptions)]
        keep == SelectSeq(data, LAMBDA row :
                    /\ row.player_id \in DOMAIN player_id_map
                    /\ (Truthy(rec(row).average_yards_per_pass_attempt)
                        \/ Truthy(rec(row).average_yards_per_rushing_attempt)
                        \/ Truthy(rec(row).average_yards_per_reception)))
    IN  [k \in 1..Len(keep) |-> rec(keep[k])]

\* lines 112-156: success counts (epa > 0) and play counts of one participant
\* over every play of the provider that names it in the role
SuccessData(pbp, id) ==
    LET pass == {u \in pbp : u.passer_player_id = id}
        rush == {u \in pbp : u.rusher_player_id = id}
        recv == {u \in pbp : u.receiver_player_id = id}
        good(S) == Cardinality({u \in S : ~IsNull(u.epa) /\ Val(u.epa) > 0})
    IN  [passing_success |-> good(pass), passing_plays |-> Cardinality(pass),
         rushing_success |-> good(rush), rushing_plays |-> Cardinality(rush),
         receiving_success |-> good(recv),
         receiving_plays |-> Cardinality(recv)]

\* lines 451-529: the record of one row of seasonal_data
SeasonalMetricsRecord(row, year, player_pk, cpoe_lookup, pbp) ==
    LET has(x)   == ~IsNull(x)
        num(x)   == IF has(x) THEN Val(x) ELSE 0
        total    == num(row.passing_epa) + num(row.rushing_epa)
                      + num(row.receiving_epa)
        plays    == (IF has(row.passing_epa) THEN row.attempts ELSE 0)
                      + (IF has(row.rushing_epa) THEN row.carries ELSE 0)
                      + (IF has(row.receiving_epa) THEN row.targets ELSE 0)
        per(x, n) == IF n > 0 /\ has(x) THEN Some(<<Val(x), n>>) ELSE Null
        sd       == SuccessData(pbp, row.player_id)
        seen     == sd.passing_plays + sd.rushing_plays + sd.receiving_plays
        rate(a, n) == IF n > 0 THEN Some(<<a * 100, n>>) ELSE Null
    IN  [playerId |-> player_pk, season |-> year, total_plays |-> plays,
         epa |-> IF total # 0 THEN Some(total) ELSE Null,
         epa_per_play |-> IF plays > 0 THEN Some(<<total, plays>>) ELSE Null,
         passing_epa |-> row.passing_epa,
         passing_epa_per_play |-> per(row.passing_epa, row.attempts),
         rushing_epa |-> row.rushing_epa,
         rushing_epa_per_play |-> per(row.rushing_epa, row.carries),
         receiving_epa |-> row.receiving_epa,
         receiving_epa_per_play |-> per(row.receiving_epa, row.targets),
         cpoe |-> IF row.player_id \in DOMAIN cpoe_lookup
                  THEN Some(cpoe_lookup[row.player_id]) ELSE Null,
         passing_success_rate |-> rate(sd.passing_success, sd.passing_plays),
         rushing_success_rate |-> rate(sd.rushing_success, sd.rushing_plays),
         receiving_success_rate |->
             rate(sd.receiving_success, sd.receiving_plays),
         success_rate |->
             rate(sd.passing_success + sd.rushing_success
                    + sd.receiving_success, seen)]

\* advancedmetrics_records: rows with total_plays == 0 are left out
SeasonalMetricsRecords(data, year, player_id_map, cpoe_lookup, pbp) ==
    LET all  == [k \in 1..Len(data) |->
                    IF data[k].player_id \in DOMAIN player_id_map
                    THEN SeasonalMetricsRecord(data[k], year,
                             player_id_map[data[k].player_id],
                             cpoe_lookup, pbp)
                    ELSE [total_plays |-> 0]]
        kept == SelectSeq(all, LAMBDA m : m.total_plays # 0)
    IN  [k \in 1..Len(kept) |-> [c \in MetricsCols |-> kept[k][c]]]

RECURSIVE UpsertEach(_, _, _, _)
\* one INSERT ... ON CONFLICT DO UPDATE per record, in order
UpsertEach(B, records, cols, k) ==
    IF k > Len(records) THEN B
    ELSE UpsertEach(Upsert(B, {records[k]}, cols), records, cols, k + 1)

\* what can go wrong inside load_seasonal_year
SeasonalFaults ==
    {"none", "fetch", "ngs", "pbp", "roster", "copy", "stats", "metrics"}

\* load_seasonal_year(year, clear): the store it leaves and what it returns
LoadSeasonalYear(year, clear, fault) ==
    LET db1  == IF clear THEN SeasonalClear(Unchanged, year) ELSE Unchanged
        data == IF fault = "fetch" THEN <<>> ELSE SeasonalData(year)
        cpoe_lookup == CpoeLookup(year, IF fault = "ngs" THEN "error" ELSE "ok")
        pbp  == IF fault = "pbp" THEN {} ELSE FetchPbp(year)
        roster == IF fault = "roster" THEN "error" ELSE "ok"
        players == MergePlayers(SeasonalPlayerRecords(data, roster))
        db2  == [db1 EXCEPT !.Player = players]
        player_id_map == [pfr \in {pl.pfr_id : pl \in players} |->
                            (CHOOSE pl \in players : pl.pfr_id = pfr).id]
        gamestat_records ==
            SeasonalGameStatRecords(data, year, player_id_map, cpoe_lookup)
        db3  == [db2 EXCEPT !.GameStat = CopyRows(@, gamestat_records, 1)]
        db4  == [db3 EXCEPT !.PlayerStats =
                    UpsertEach(@, SeasonalPlayerStatsRecords(data, year,
                                      player_id_map),
                               PlayerSeasonKey, 1)]
        db5  == [db4 EXCEPT !.AdvancedMetrics =
                    UpsertEach(@, SeasonalMetricsRecords(data, year,
                                      player_id_map, cpoe_lookup, pbp),
                               PlayerSeasonKey, 1)]
    IN  IF SeasonAlreadyLoaded(db1.GameStat, year) \/ Len(data) = 0
        THEN [db |-> db1, ret |-> 0]
        ELSE IF Len(gamestat_records) = 0 \/ fault = "copy"
        THEN [db |-> db2, ret |-> 0]
        ELSE IF fault = "stats" THEN [db |-> db3, ret |-> 0]
        ELSE IF fault = "metrics" THEN [db |-> db4, ret |-> 0]
        ELSE [db |-> db5, ret |-> Len(gamestat_records)]

-----------------------------------------------------------------------------
(* The play loader run by hand, any number of times, while the provider     *)
(* publishes plays.                                                         *)

NoLast == [op |-> "none"]
Idle == [pc |-> "idle"]

InitStore ==
    /\ Play = EmptyBag
    /\ Player = {}
    /\ PlayerStats = EmptyBag
    /\ GameStat = EmptyBag
    /\ AdvancedMetrics = EmptyBag

InitPbp ==
    /\ upstream = {}
    /\ InitStore
    /\ orch = Idle
    /\ log = <<>>
    /\ last = NoLast
    /\ fresh = <<>>
    /\ runs = 0

\* the plays the provider publishes while the loader is run by hand
PbpCatalogue == {U1, U3, U5, H1}

\* the provider publishes one more play
Publish ==
    /\ \E u \in PbpCatalogue \ upstream : upstream' = upstream \cup {u}
    /\ UNCHANGED <<dbvars, orch, log, last, fresh, runs>>

\* python load_pbp_fast.py <season>
RunLoadPbp ==
    /\ runs < MaxRuns
    /\ \E season \in Seasons, fetch, lookup, copy \in Outcomes :
          /\ lookup = "error" => MaxCopiesIn(Play) < MaxCopies
          /\ LoadPbpSeason(season, fetch, lookup, copy)
    /\ runs' = runs + 1
    /\ UNCHANGED <<upstream, Player, PlayerStats, GameStat, AdvancedMetrics,
                   orch, log, fresh>>

NextPbp == Publish \/ RunLoadPbp

SpecPbp == InitPbp /\ [][NextPbp]_vars

-----------------------------------------------------------------------------
(* The scripts that write PlayerStats, GameStat and AdvancedMetrics, and the *)
(* two they read from, run by hand in any order against the provider's data *)

InitStats ==
    /\ upstream = Catalogue
    /\ InitStore
    /\ orch = Idle
    /\ log = <<>>
    /\ last = NoLast
    /\ fresh = <<>>
    /\ runs = 0

\* python load_pbp_fast.py <season>
StatsLoadPbp ==
    /\ \E season \in Seasons, lookup \in Outcomes :
          /\ lookup = "error" => MaxCopiesIn(Play) < MaxCopies
          /\ LoadPbpSeason(season, "ok", lookup, "ok")
    /\ UNCHANGED <<upstream, Player, PlayerStats, GameStat, AdvancedMetrics,
                   orch, log, fresh, runs>>

\* python populate_players_from_pbp.py <year>
RunPopulatePlayers ==
    /\ \E year \in Seasons, roster \in Outcomes :
          PopulatePlayersFromPbp(year, roster)
    /\ UNCHANGED <<upstream, Play, PlayerStats, GameStat, AdvancedMetrics,
                   orch, log, fresh, runs>>

\* python calculate_medians_fast.py <season>
RunCalculateMedians ==
    /\ \E season \in Seasons : CalculateMediansForSeason(season)
    /\ UNCHANGED <<upstream, Play, Player, GameStat, AdvancedMetrics,
                   orch, log, fresh, runs>>

NextStats == StatsLoadPbp \/ RunPopulatePlayers \/ RunCalculateMedians

SpecStats == InitStats /\ [][NextStats]_vars

-----------------------------------------------------------------------------
(* Every script that writes PlayerStats, GameStat or AdvancedMetrics, and   *)
(* the two they read from, run by hand in any order, a few runs in all,     *)
(* on a store that holds the regular-season plays of both seasons.          *)

InitTables ==
    /\ upstream = Catalogue
    /\ Play = SetToBag({ToPlayRow(u) : u \in {c \in Catalogue :
                                                c.season_type = "REG"}})
    /\ Player = {}
    /\ PlayerStats = EmptyBag
    /\ GameStat = EmptyBag
    /\ AdvancedMetrics = EmptyBag
    /\ orch = Idle
    /\ log = <<>>
    /\ last = NoLast
    /\ fresh = <<>>
    /\ runs = 0

TablesLoadPbp ==
    /\ runs < MaxScripts
    /\ runs' = runs + 1
    /\ \E season \in Seasons, lookup \in Outcomes :
          /\ lookup = "error" => MaxCopiesIn(Play) < MaxCopies
          /\ LoadPbpSeason(season, "ok", lookup, "ok")
    /\ UNCHANGED <<upstream, Player, PlayerStats, GameStat, AdvancedMetrics,
                   orch, log, fresh>>

TablesPopulatePlayers ==
    /\ runs < MaxScripts
    /\ runs' = runs + 1
    /\ \E year \in Seasons : PopulatePlayersFromPbp(year, "ok")
    /\ UNCHANGED <<upstream, Play, PlayerStats, GameStat, AdvancedMetrics,
                   orch, log, fresh>>

TablesCalculateMedians ==
    /\ runs < MaxScripts
    /\ runs' = runs + 1
    /\ \E season \in Seasons : CalculateMediansForSeason(season)
    /\ UNCHANGED <<upstream, Play, Player, GameStat, AdvancedMetrics,
                   orch, log, fresh>>

\* python fix_2025_gamestat_weeks_fast.py <year>
RunRebuildGameStat ==
    /\ runs < MaxScripts
    /\ runs' = runs + 1
    /\ \E year \in Seasons :
          /\ GameStat' = RebuildGameStat(year)
          /\ last' = [op |-> "gamestat", season |-> year]
    /\ UNCHANGED <<upstream, Play, Player, PlayerStats, AdvancedMetrics,
                   orch, log, fresh>>

\* python populate_2025_all_positions.py
RunPopulateAllPositions ==
    /\ runs < MaxScripts
    /\ runs' = runs + 1
    /\ \E fetch \in Outcomes :
          /\ AdvancedMetrics' = PopulateAllPositions(fetch).metrics
          /\ last' = [op |-> "seasonal_epa", season |-> CurrentSeason,
                      fetch |-> fetch,
                      exit |-> PopulateAllPositions(fetch).exit]
    /\ UNCHANGED <<upstream, Play, Player, PlayerStats, GameStat,
                   orch, log, fresh>>

\* python load_seasonal_data_fast.py <year> [--clear]
RunLoadSeasonalYear ==
    /\ runs < MaxScripts
    /\ runs' = runs + 1
    /\ \E year \in Seasons, clear \in BOOLEAN, fault \in SeasonalFaults :
          LET r == LoadSeasonalYear(year, clear, fault)
          IN  /\ Player' = r.db.Player
              /\ GameStat' = r.db.GameStat
              /\ PlayerStats' = r.db.PlayerStats
              /\ AdvancedMetrics' = r.db.AdvancedMetrics
              /\ last' = [op |-> "seasonal", season |-> year,
                          clear |-> clear, ret |-> r.ret,
                          skipped |-> SeasonAlreadyLoaded(
                              IF clear
                              THEN SeasonalClear(Unchanged, year).GameStat
                              ELSE GameStat, year)]
    /\ UNCHANGED <<upstream, Play, orch, log, fresh>>

NextTables ==
    \/ TablesLoadPbp
    \/ TablesPopulatePlayers
    \/ TablesCalculateMedians
    \/ RunRebuildGameStat
    \/ RunPopulateAllPositions
    \/ RunLoadSeasonalYear

SpecTables == InitTables /\ [][NextTables]_vars


-----------------------------------------------------------------------------
(* The weekly rebuild run by hand, with its failures, between runs of the  *)
(* Player Resolver and of the seasonal loader, on a store that holds the   *)
(* regular-season plays of both seasons.                                    *)

\* python fix_2025_gamestat_weeks_fast.py <year>, which may fail
RebuildRun ==
    /\ runs < MaxScripts
    /\ runs' = runs + 1
    /\ \E year \in Seasons, fault \in RebuildFaults :
          LET r == RebuildGameStatScript(year, fault)
          IN  /\ GameStat' = r.gamestat
              /\ last' = [op |-> "rebuild", season |-> year, fault |-> fault,
                          exit |-> r.exit, before |-> GameStat]
    /\ UNCHANGED <<upstream, Play, Player, PlayerStats, AdvancedMetrics,
                   orch, log, fresh>>

NextRebuild == TablesPopulatePlayers \/ RunLoadSeasonalYear \/ RebuildRun

SpecRebuild == InitTables /\ [][NextRebuild]_vars

-----------------------------------------------------------------------------
(* The yardage aggregates over one game of provider data: the medians and  *)
(* the weekly boxscore rebuild, run by hand on a store that holds the      *)
(* game's plays and its two players.                                        *)

\* q throws an incomplete pass to r: a pass attempt with no yardage
Incomplete ==
    [U1 EXCEPT !.complete_pass = FALSE, !.passing_yards = Null,
               !.receiving_yards = Null, !.cpoe = Some(-5), !.epa = Some(-1),
               !.success = 0]

\* q spikes the ball
Spike ==
    [BlankPlay EXCEPT !.play_type = "qb_spike", !.passer_player_id = "q",
                      !.passer_player_name = "Q", !.pass_attempt = TRUE]

CompletedPass(y) ==
    [U1 EXCEPT !.passing_yards = Some(y), !.receiving_yards = Some(y)]

RushFor(y) == [U3 EXCEPT !.rushing_yards = Some(y)]

\* the kinds of play the game is made of
PlayKinds ==
    <<CompletedPass(2), CompletedPass(3), CompletedPass(4), CompletedPass(5),
      CompletedPass(6), CompletedPass(9), U2, Incomplete, Spike,
      RushFor(0), RushFor(3), RushFor(-2)>>

\* the provider's frame for a game of the given kinds of play, in play order
GamePlays(ks) ==
    {[PlayKinds[ks[i]] EXCEPT !.play_id = i] : i \in DOMAIN ks}

ResolvedPlayers ==
    {[id |-> PfrIndex(p), pfr_id |-> p, name |-> RosterName[p],
      position |-> RosterPosition[p]] : p \in {"q", "r"}}

InitYards ==
    /\ \E n \in 0..MaxPlays :
          \E ks \in [1..n -> 1..Len(PlayKinds)] :
             /\ \A i \in 1..(n - 1) : ks[i] <= ks[i + 1]
             /\ upstream = GamePlays(ks)
             /\ Play = SetToBag({ToPlayRow(u) : u \in GamePlays(ks)})
    /\ Player = ResolvedPlayers
    /\ PlayerStats = EmptyBag
    /\ GameStat = EmptyBag
    /\ AdvancedMetrics = EmptyBag
    /\ orch = Idle
    /\ log = <<>>
    /\ last = NoLast
    /\ fresh = <<>>
    /\ runs = 0

YardsCalculateMedians ==
    /\ \E season \in Seasons : CalculateMediansForSeason(season)
    /\ UNCHANGED <<upstream, Play, Player, GameStat, AdvancedMetrics,
                   orch, log, fresh, runs>>

YardsRebuildGameStat ==
    /\ \E year \in Seasons :
          /\ GameStat' = RebuildGameStat(year)
          /\ last' = [op |-> "gamestat", season |-> year]
    /\ UNCHANGED <<upstream, Play, Player, PlayerStats, AdvancedMetrics,
                   orch, log, fresh, runs>>

NextYards == YardsCalculateMedians \/ YardsRebuildGameStat

SpecYards == InitYards /\ [][NextYards]_vars

-----------------------------------------------------------------------------
(* The seasonal EPA of the current season over one game of provider data,  *)
(* run by hand on a store that holds the game's two players.               *)

\* a trick play: r throws a 7 yard pass to q
TrickPass ==
    [U1 EXCEPT !.passer_player_id = "r", !.passer_player_name = "R",
               !.receiver_player_id = "q", !.receiver_player_name = "Q",
               !.passing_yards = Some(7), !.receiving_yards = Some(7),
               !.cpoe = Null, !.epa = Some(3)]

\* the kinds of play the game is made of
EpaKinds == <<U1, U2, U3, TrickPass, U4>>

\* the provider's frame for a game of the given kinds of play, in play order
EpaGamePlays(ks) ==
    {[EpaKinds[ks[i]] EXCEPT !.play_id = i, !.game_id = "g1",
                             !.week = Some(1), !.game_date = "d1"] :
        i \in DOMAIN ks}

InitSeasonEpa ==
    /\ \E n \in 0..MaxPlays :
          \E ks \in [1..n -> 1..Len(EpaKinds)] :
             /\ \A i \in 1..(n - 1) : ks[i] <= ks[i + 1]
             /\ upstream = EpaGamePlays(ks)
    /\ Play = EmptyBag
    /\ Player = ResolvedPlayers
    /\ PlayerStats = EmptyBag
    /\ GameStat = EmptyBag
    /\ AdvancedMetrics = EmptyBag
    /\ orch = Idle
    /\ log = <<>>
    /\ last = NoLast
    /\ fresh = <<>>
    /\ runs = 0

NextSeasonEpa == RunPopulateAllPositions

SpecSeasonEpa == InitSeasonEpa /\ [][NextSeasonEpa]_vars

-----------------------------------------------------------------------------
(* Season purge: clear_season_data in load_current_season_data.py *)

\* the four DELETEs in the order of the code
ClearOrder == <<"Play", "GameStat", "PlayerStats", "AdvancedMetrics">>

Tables ==
    [Play |-> Play, GameStat |-> GameStat, PlayerStats |-> PlayerStats,
     AdvancedMetrics |-> AdvancedMetrics]

OtherSeasons(B, year) == BagFilter(B, LAMBDA r : r.season # year)

SeasonCount(B, year) == BagCardinality(B) - BagCardinality(OtherSeasons(B, year))

\* a variant that leaves the GameStat rows in place
ClearSeasonDataKeepingGameStat(year, failAt) ==
    [ok |-> failAt = 0,
     tables |-> [t \in DOMAIN Tables |->
                    IF failAt = 0 /\ t # "GameStat"
                    THEN OtherSeasons(Tables[t], year) ELSE Tables[t]],
     deleted |-> IF failAt = 0 THEN SeasonCount(Play, year) ELSE 0]

\* clear_season_data(year): each DELETE is committed on its own; failAt = k > 0
\* is the k-th DELETE raising, after k - 1 of them were committed
ClearSeasonData(year, failAt) ==
    LET done == IF failAt = 0 THEN Len(ClearOrder) ELSE failAt - 1
        gone == {ClearOrder[k] : k \in 1..done}
    IN  [ok |-> failAt = 0,
         tables |-> [t \in DOMAIN Tables |->
                        IF t \in gone THEN OtherSeasons(Tables[t], year)
                        ELSE Tables[t]],
         deleted |-> SumFn([t \in gone |-> SeasonCount(Tables[t], year)], gone)]

-----------------------------------------------------------------------------
(* Orchestrator: run_update in load_current_season_data.py *)

\* a variant that resolves the players before computing the medians
StageOrderPlayersFirst ==
    <<"load_pbp", "players", "medians", "gamestat", "sacks_int",
      "seasonal_epa", "weekly_epa", "cpoe">>

\* the subprocess calls of run_update in the order of the code
StageOrder ==
    <<"load_pbp", "medians", "players", "gamestat", "sacks_int",
      "seasonal_epa", "weekly_epa", "cpoe">>

\* if year == 2025: only then is populate_2025_all_positions.py run
StageApplies(stage, year) == stage # "seasonal_epa" \/ year = 2025

\* how a subprocess.run call can end: the script runs to its end, the script
\* dies before its first commit, or subprocess.run itself raises
ProcOutcomes == {"ran", "crash", "exception"}

NoFault == [kind |-> "none", after |-> 0]

\* what can go wrong inside a script that still runs to its end
Faults(stage, year) ==
    {NoFault} \cup
    CASE stage = "load_pbp" ->
            {[kind |-> k, after |-> 0] : k \in {"fetch", "lookup", "copy"}}
      [] stage = "players" -> {[kind |-> "roster", after |-> 0]}
      [] stage \in {"seasonal_epa", "weekly_epa"} ->
            {[kind |-> "fetch", after |-> 0]}
      [] stage = "cpoe" ->
            {[kind |-> "fetch", after |-> 0]} \cup
            {[kind |-> "died", after |-> k] :
                k \in 1..(Len(SelectSeq(NgsPassing(year),
                                        LAMBDA r : ~IsNull(r.week))) - 1)}
      [] OTHER -> {}

Flag(fault, kind) == IF fault.kind = kind THEN "error" ELSE "ok"

\* the store after the script of a stage ran, and the script's exit code
StageRan(stage, year, fault) ==
    CASE stage = "load_pbp" ->
            [db |-> [Unchanged EXCEPT !.Play =
                        LoadPbpResult(year, Flag(fault, "fetch"),
                                      Flag(fault, "lookup"),
                                      Flag(fault, "copy")).play],
             exit |-> 0]
      [] stage = "medians" ->
            [db |-> [Unchanged EXCEPT !.PlayerStats = MediansResult(year)],
             exit |-> 0]
      [] stage = "players" ->
            [db |-> [Unchanged EXCEPT !.Player =
                        MergePlayers(PlayersToInsert(year,
                                                     Flag(fault, "roster")))],
             exit |-> 0]
      [] stage = "gamestat" ->
            [db |-> [Unchanged EXCEPT !.GameStat = RebuildGameStat(year)],
             exit |-> 0]
      [] stage = "sacks_int" ->
            [db |-> [Unchanged EXCEPT !.GameStat = PopulateSacksInt(year)],
             exit |-> 0]
      [] stage = "seasonal_epa" ->
            LET r == PopulateAllPositions(Flag(fault, "fetch"))
            IN  [db |-> [Unchanged EXCEPT !.AdvancedMetrics = r.metrics],
                 exit |-> r.exit]
      [] stage = "weekly_epa" ->
            [db |-> [Unchanged EXCEPT !.GameStat =
                        CalculateWeeklyEpa(year, Flag(fault, "fetch"))],
             exit |-> 0]
      [] stage = "cpoe" ->
            LET r == UpdateWeeklyCpoe(year, Flag(fault, "fetch"), fault.after)
            IN  [db |-> [Unchanged EXCEPT !.GameStat = r.gamestat],
                 exit |-> r.exit]

\* stands for "no return code": subprocess.run raised
Raised == -1

\* what subprocess.run gives run_update: a return code, or an exception
StageResult(stage, year, outcome, fault) ==
    CASE outcome = "ran"       -> StageRan(stage, year, fault)
      [] outcome = "crash"     -> [db |-> Unchanged, exit |-> 1]
      [] outcome = "exception" -> [db |-> Unchanged, exit |-> Raised]

\* a variant that goes on whatever the return code
AfterStageIgnoringExit(stage, exit) == "next"

\* a variant in which the CPOE stage is checked like the others
AfterStageCpoeChecked(stage, exit) == IF exit = 0 THEN "next" ELSE "fail"

\* if result.returncode != 0: return False; for the CPOE stage only a warning;
\* an exception reaches the except clauses, which return False
AfterStage(stage, exit) ==
    IF exit = 0 THEN "next"
    ELSE IF exit # Raised /\ stage = "cpoe" THEN "next"
    ELSE "fail"


\* the season-Y row counts of the four season tables
RowCounts(year) ==
    [t \in DOMAIN Tables |-> SeasonCount(Tables[t], year)]

StoreIsEmpty ==
    /\ Play = EmptyBag /\ Player = {} /\ PlayerStats = EmptyBag
    /\ GameStat = EmptyBag /\ AdvancedMetrics = EmptyBag

\* the program is started in 2025 or a year later, when the provider has
\* the plays of the next season too
Init ==
    /\ upstream \in {Catalogue, NextYearCatalogue}
    /\ InitStore
    /\ orch = Idle
    /\ log = <<>>
    /\ last = NoLast
    /\ fresh = [y \in ProviderSeasons |-> Null]
    /\ runs = 0

\* current_year = datetime.now().year: the year of the latest season the
\* provider has plays of
CurrentYear ==
    CHOOSE y \in ProviderSeasons :
        /\ \E u \in upstream : u.season = y
        /\ \A u \in upstream : u.season <= y

\* years_to_load of the all-years mode, in the order of the loop:
\* range(2016, current_year + 1), of which the last two years are kept
YearsToLoad == <<CurrentYear - 1, CurrentYear>>

\* the state of run_update(year, clear) as it is entered
EnterRunUpdate(year, clear, mode, todo, ok) ==
    [pc |-> IF clear THEN "clear" ELSE "stage",
     year |-> year, clear |-> clear, next |-> 1,
     running |-> FALSE, ret |-> Null, clean |-> TRUE,
     purge |-> "none", deleted |-> 0,
     into_empty |-> StoreIsEmpty,
     main |-> "run", mode |-> mode, todo |-> todo, ok |-> ok,
     batch |-> "none", raw |-> {}, weekly |-> {}]

\* __main__ is started, for one year or for all years, with or without
\* --clear, and calls run_update for its first year
CallRunUpdate ==
    /\ orch.pc = "idle" \/ (orch.pc = "done" /\ orch.main = "exited")
    /\ runs < MaxUpdates
    /\ \E clear \in BOOLEAN :
          \/ \E year \in Seasons :
                orch' = EnterRunUpdate(year, clear, "single", <<>>, {})
          \/ orch' = EnterRunUpdate(Head(YearsToLoad), clear, "all",
                                    Tail(YearsToLoad), {})
    /\ log' = <<>>
    /\ runs' = runs + 1
    /\ UNCHANGED <<upstream, dbvars, last, fresh>>

\* successful_years once the current run_update has returned
SuccessfulYears ==
    orch.ok \cup (IF orch.ret = Some(TRUE) THEN {orch.year} ELSE {})

\* the all-years loop goes on to run_update for its next year
CallNextYear ==
    /\ orch.pc = "done" /\ orch.main = "run"
    /\ orch.mode = "all" /\ orch.todo # <<>>
    /\ runs < MaxUpdates
    /\ orch' = [EnterRunUpdate(Head(orch.todo), orch.clear, "all",
                               Tail(orch.todo), SuccessfulYears)
                   EXCEPT !.raw = orch.raw]
    /\ log' = <<>>
    /\ runs' = runs + 1
    /\ UNCHANGED <<upstream, dbvars, last, fresh>>

\* the years handed to populate_historical_advanced_metrics.py: the year of
\* a successful single-year run before 2025, or the range from the first to
\* the last successful year before 2025
BatchYears ==
    LET historical == {y \in SuccessfulYears : y < CurrentSeason}
    IN  IF orch.mode = "single" THEN historical
        ELSE {y \in 2016..(CurrentSeason - 1) :
                /\ \E a \in historical : a <= y
                /\ \E b \in historical : y <= b}

\* how the batch script can end: it runs to its end, the query of some of
\* its seasons raising or not, or it dies before its first statement
BatchOutcomes(years) ==
    {[kind |-> "ran", failing |-> f] : f \in SUBSET years}
      \cup {[kind |-> "crash", failing |-> {}]}

\* after the last run_update: the batch for the earlier seasons, whose
\* return code only chooses the message, and sys.exit
FinishMain ==
    /\ orch.pc = "done" /\ orch.main = "run"
    /\ orch.mode = "all" => orch.todo = <<>>
    /\ IF BatchYears = {}
       THEN /\ orch' = [orch EXCEPT !.main = "exited", !.ok = SuccessfulYears]
            /\ UNCHANGED AdvancedMetrics
       ELSE \E out \in BatchOutcomes(BatchYears) :
              /\ AdvancedMetrics' =
                    IF out.kind = "crash" THEN AdvancedMetrics
                    ELSE PopulateHistoricalMetrics(AdvancedMetrics, GameStat,
                                                   BatchYears, out.failing)
              /\ orch' = [orch EXCEPT !.main = "exited",
                                      !.ok = SuccessfulYears,
                                      !.batch = IF out.kind = "ran"
                                                   /\ out.failing = {}
                                                THEN "ok" ELSE "failed",
                                      !.weekly = IF out.kind = "ran"
                                                 THEN BatchYears \ out.failing
                                                 ELSE {}]
    /\ UNCHANGED <<upstream, Play, Player, PlayerStats, GameStat, log, last,
                   fresh, runs>>

\* if clear: if not clear_season_data(year): return False
RunClearSeasonData ==
    /\ orch.pc = "clear"
    /\ \E failAt \in 0..Len(ClearOrder) :
          LET r == ClearSeasonData(orch.year, failAt)
          IN  /\ Play' = r.tables.Play
              /\ GameStat' = r.tables.GameStat
              /\ PlayerStats' = r.tables.PlayerStats
              /\ AdvancedMetrics' = r.tables.AdvancedMetrics
              /\ orch' = [orch EXCEPT
                            !.pc = IF r.ok THEN "stage" ELSE "done",
                            !.ret = IF r.ok THEN Null ELSE Some(FALSE),
                            !.clean = r.ok,
                            !.purge = IF r.ok THEN "ok" ELSE "failed",
                            !.deleted = r.deleted]
    /\ UNCHANGED <<upstream, Player, log, last, fresh, runs>>

\* subprocess.run(...) of the next stage is entered
StartStage ==
    /\ orch.pc = "stage" /\ ~orch.running
    /\ StageApplies(StageOrder[orch.next], orch.year)
    /\ orch' = [orch EXCEPT !.running = TRUE]
    /\ log' = Append(log, [ev |-> "start", stage |-> StageOrder[orch.next]])
    /\ UNCHANGED <<upstream, dbvars, last, fresh, runs>>

\* the else branch of step 5: the stage is skipped for another year
SkipStage ==
    /\ orch.pc = "stage" /\ ~orch.running
    /\ ~StageApplies(StageOrder[orch.next], orch.year)
    /\ orch' = [orch EXCEPT !.next = @ + 1]
    /\ UNCHANGED <<upstream, dbvars, log, last, fresh, runs>>

\* the exit code with which calculate_weekly_epa.py ends once the
\* verification was treated as a failure
WeeklyEpaExitOnMismatch(reported) == IF reported # {} THEN 1 ELSE 0

\* lines 259-278: the mismatches are printed, the connection is closed and
\* the script ends normally
WeeklyEpaExit(reported) == 0

\* subprocess.run(...) returns or raises, and run_update goes on to the next
\* step or returns
FinishStage ==
    /\ orch.pc = "stage" /\ orch.running
    /\ \E outcome \in ProcOutcomes :
       \E fault \in IF outcome = "ran"
                    THEN Faults(StageOrder[orch.next], orch.year)
                    ELSE {NoFault} :
          LET stage    == StageOrder[orch.next]
              r0       == StageResult(stage, orch.year, outcome, fault)
              verifies == /\ stage = "weekly_epa" /\ outcome = "ran"
                          /\ fault = NoFault /\ FetchPbp(orch.year) # {}
              reports  == IF verifies
                          THEN VerificationReports(r0.db.GameStat,
                                                   r0.db.AdvancedMetrics,
                                                   orch.year)
                          ELSE {{}}
          IN  \E rep \in reports :
              LET r      == IF verifies
                            THEN [r0 EXCEPT !.exit = WeeklyEpaExit(rep)]
                            ELSE r0
                  go     == AfterStage(stage, r.exit)
                  isLast == orch.next = Len(StageOrder)
                  clean  == orch.clean /\ outcome = "ran" /\ fault = NoFault
                  ended  == go = "fail" \/ isLast
                  ret    == go = "next"
              IN  /\ Play' = r.db.Play
                  /\ Player' = r.db.Player
                  /\ PlayerStats' = r.db.PlayerStats
                  /\ GameStat' = r.db.GameStat
                  /\ AdvancedMetrics' = r.db.AdvancedMetrics
                  /\ log' = Append(log, [ev |-> "end", stage |-> stage,
                                         exit |-> r.exit])
                  /\ orch' = [orch EXCEPT
                                !.running = FALSE,
                                !.clean = clean,
                                !.pc = IF ended THEN "done" ELSE "stage",
                                !.next = IF ended THEN @ ELSE @ + 1,
                                !.ret = IF ended THEN Some(ret) ELSE Null,
                                !.raw = IF stage = "seasonal_epa"
                                           /\ r.exit = 0
                                        THEN @ \cup {CurrentSeason} ELSE @]
                  /\ fresh' = IF ended /\ ret /\ clean /\ orch.into_empty
                                 /\ IsNull(fresh[orch.year])
                              THEN [fresh EXCEPT ![orch.year] =
                                      Some([t \in DOMAIN Tables |->
                                              SeasonCount(r.db[t], orch.year)])]
                              ELSE fresh
                  /\ last' = IF verifies
                             THEN [op |-> "verify", season |-> orch.year,
                                   reported |-> rep]
                             ELSE NoLast
    /\ UNCHANGED <<upstream, runs>>

Next ==
    \/ CallRunUpdate
    \/ RunClearSeasonData
    \/ StartStage
    \/ SkipStage
    \/ FinishStage
    \/ CallNextYear
    \/ FinishMain

Spec == Init /\ [][Next]_vars

-----------------------------------------------------------------------------
(* Claims about the play loader, checked under SpecPbp *)

LoadedPbp == last.op = "load_pbp"

\* the keys of the stored rows of a season in a Play bag
StoredKeys(play, season) ==
    {PlayKey(r) : r \in {x \in DOMAIN play : x.season = season}}

\* every regular-season play the provider had for the season was stored
\* before the run
AllStoredBefore ==
    /\ last.fetch = "ok"
    /\ \E u \in last.pbp : u.season_type = "REG"
    /\ \A u \in last.pbp : u.season_type = "REG" =>
          PlayKey(ToPlayRow(u)) \in StoredKeys(last.before, last.season)

\* C7: a run of load_pbp_season for a season whose provider plays are all
\* already stored inserts no row and returns 0.
C7_ReloadInsertsNothing ==
    (LoadedPbp /\ AllStoredBefore) => (Play = last.before /\ last.ret = 0)

\* C8: no two Play rows of a season share (game_id, play_id); a run inserts
\* only plays whose key was not stored, and every stored row stays as it was.
C8_PlayKeysUnique ==
    /\ \A r1, r2 \in DOMAIN Play :
          (r1.season = r2.season /\ PlayKey(r1) = PlayKey(r2)) =>
              (r1 = r2 /\ Play[r1] = 1)
    /\ LoadedPbp =>
          /\ \A r \in DOMAIN last.before :
                r \in DOMAIN Play /\ Play[r] >= last.before[r]
          /\ \A r \in DOMAIN Play :
                (r \notin DOMAIN last.before \/ Play[r] > last.before[r]) =>
                    PlayKey(r) \notin StoredKeys(last.before, r.season)

\* C9: if the provider's fetch fails or returns no row for the season,
\* load_pbp_season returns 0, does not raise and leaves Play as it was.
C9_NoDataIsNoOp ==
    (LoadedPbp /\ (last.fetch = "error" \/ last.pbp = {})) =>
        (last.ret = 0 /\ ~last.raised /\ Play = last.before)

\* a failed fetch for a season the provider has regular-season plays of,
\* none of them stored yet
C9_Witness ==
    /\ LoadedPbp /\ last.fetch = "error" /\ last.copy = "ok"
    /\ \E u \in upstream : u.season = last.season /\ u.season_type = "REG"
    /\ StoredKeys(last.before, last.season) = {}

-----------------------------------------------------------------------------
(* Claims about run_update, checked under Spec *)

\* the order of the stages as the specification gives it
CanonicalOrder ==
    <<"load_pbp", "medians", "players", "gamestat", "sacks_int",
      "seasonal_epa", "weekly_epa", "cpoe">>

\* the canonical order without the seasonal EPA stage, which is deferred to
\* the batch for a season other than 2025
OrderFor(year) ==
    SelectSeq(CanonicalOrder, LAMBDA st : st # "seasonal_epa" \/ year = 2025)

Started == SelectSeq(log, LAMBDA e : e.ev = "start")

\* C1: within one run_update the started stages are, in order, the first
\* stages of the canonical order (load plays, medians, player resolve, weekly
\* boxscore rebuild, sacks/interceptions, seasonal EPA, weekly EPA, CPOE
\* overlay), so none starts twice; and every start but the first directly
\* follows the end of the stage started before it.
C1_StagesInOrder ==
    orch.pc # "idle" =>
        /\ Len(Started) <= Len(OrderFor(orch.year))
        /\ \A i \in 1..Len(Started) :
              Started[i].stage = OrderFor(orch.year)[i]
        /\ \A k \in 1..Len(log) :
              /\ log[k].ev = "start" =>
                    (k = 1 \/ log[k - 1].ev = "end")
              /\ log[k].ev = "end" =>
                    (k > 1 /\ log[k - 1].ev = "start"
                           /\ log[k - 1].stage = log[k].stage)

\* a run for 2025 that started all eight stages and returned True
C1_Witness ==
    /\ orch.pc = "done" /\ orch.ret = Some(TRUE) /\ orch.year = 2025
    /\ Len(Started) = 8
    /\ Len(log) = 16

\* C2: when a stage other than the CPOE overlay ends with a nonzero return
\* code or an exception, that is the last thing the run does: no stage starts
\* after it and run_update returns False.
C2_FailureAborts ==
    \A k \in 1..Len(log) :
        (log[k].ev = "end" /\ log[k].stage # "cpoe" /\ log[k].exit # 0) =>
            /\ k = Len(log)
            /\ orch.pc = "done"
            /\ orch.ret = Some(FALSE)

\* the weekly boxscore rebuild fails after three stages went through
C2_Witness ==
    /\ orch.pc = "done" /\ orch.ret = Some(FALSE)
    /\ Len(log) = 8
    /\ log[8] = [ev |-> "end", stage |-> "gamestat", exit |-> 1]

\* C3: when the CPOE overlay ends with a return code, zero or not, stages 1
\* to 6 having succeeded, run_update returns True.
C3_CpoeFailureTolerated ==
    \A k \in 1..Len(log) :
        (log[k].ev = "end" /\ log[k].stage = "cpoe" /\ log[k].exit # Raised) =>
            /\ orch.pc = "done"
            /\ orch.ret = Some(TRUE)

\* the overlay fetched its data, updated no row and exited with 1
C3_Witness ==
    /\ orch.pc = "done" /\ orch.ret = Some(TRUE)
    /\ log # <<>>
    /\ log[Len(log)] = [ev |-> "end", stage |-> "cpoe", exit |-> 1]
    /\ SeasonCount(GameStat, orch.year) = 0

\* C4: in a run with clear=True, while stage 1 is starting no row of the
\* season is in Play, GameStat, PlayerStats or AdvancedMetrics; and a run
\* whose purge failed has started no stage and has returned False.
C4_PurgedBeforeStageOne ==
    /\ (orch.pc = "stage" /\ orch.clear
          /\ log = <<[ev |-> "start", stage |-> "load_pbp"]>>) =>
            \A t \in DOMAIN Tables : SeasonCount(Tables[t], orch.year) = 0
    /\ (orch.pc # "idle" /\ orch.purge = "failed") =>
            /\ log = <<>>
            /\ orch.pc = "done"
            /\ orch.ret = Some(FALSE)

\* stage 1 is starting after a purge that deleted rows of the season
C4_Witness ==
    /\ orch.pc = "stage" /\ orch.clear /\ orch.purge = "ok"
    /\ orch.deleted > 2
    /\ log = <<[ev |-> "start", stage |-> "load_pbp"]>>

\* C5: a successful run with clear=True, in which nothing went wrong inside
\* any stage, leaves as many rows of the season in each of Play, GameStat,
\* PlayerStats and AdvancedMetrics as the first such run into an empty store
\* left, the provider's data being the same.
C5_ReloadMatchesFreshLoad ==
    (/\ orch.pc = "done" /\ orch.ret = Some(TRUE) /\ orch.clean
     /\ orch.main = "run"
     /\ orch.clear /\ orch.purge = "ok"
     /\ ~IsNull(fresh[orch.year])) =>
        RowCounts(orch.year) = Val(fresh[orch.year])

-----------------------------------------------------------------------------
(* Claims about the median aggregator, checked under SpecStats *)

SeasonRows(B, season) == BagFilter(B, LAMBDA r : r.season = season)

\* C10: a second run of calculate_medians_for_season for the same season,
\* with Play and Player as they were, leaves PlayerStats as the first run
\* left it: the same rows with the same six values, none of them twice.
C10_MediansIdempotent ==
    (last.op = "medians" /\ last.again) =>
        /\ PlayerStats = last.before
        /\ \A r \in DOMAIN SeasonRows(PlayerStats, last.season) :
              KeyCount(PlayerStats, PlayerSeasonKey, KeyOf(r, PlayerSeasonKey)) = 1

\* the second run follows a first one that stored a median for some player
C10_Witness ==
    /\ last.op = "medians" /\ last.again
    /\ \E r \in DOMAIN PlayerStats :
          /\ r.season = last.season
          /\ ~IsNull(r.median_yards_per_pass_attempt)
    /\ \E r \in DOMAIN PlayerStats :
          /\ r.season = last.season
          /\ ~IsNull(r.median_yards_per_rushing_attempt)

(***************************************************************************)
(* Claims about the stored statistics tables, checked under SpecTables.    *)
(***************************************************************************)

GameStatKey == {"playerId", "season", "week"}

RowsUnique(B, cols) ==
    \A r \in BagToSet(B) : KeyCount(B, cols, KeyOf(r, cols)) = 1

\* C6: after any number of runs of the scripts, PlayerStats holds at most
\* one row per (player, season), AdvancedMetrics holds at most one row per
\* (player, season), and GameStat holds at most one row per (player, season,
\* week), the row whose week is unset counting as a week of its own.
C6_RowsUnique ==
    /\ RowsUnique(PlayerStats, PlayerSeasonKey)
    /\ RowsUnique(AdvancedMetrics, PlayerSeasonKey)
    /\ RowsUnique(GameStat, GameStatKey)

\* the seasonal loader has been run again, without clearing, on a season
\* whose season-level rows, PlayerStats rows and AdvancedMetrics rows are
\* stored
C6_Witness ==
    /\ last.op = "seasonal"
    /\ ~last.clear
    /\ last.skipped
    /\ \E g \in BagToSet(GameStat) :
          g.season = last.season /\ IsNull(g.week)
    /\ \E r \in BagToSet(PlayerStats) : r.season = last.season
    /\ \E r \in BagToSet(AdvancedMetrics) : r.season = last.season

(***************************************************************************)
(* Claims about the yardage aggregates, checked under SpecYards.           *)
(***************************************************************************)

\* the plays of a season that count for a player's role
QualifyingPass(pfr, season) ==
    {pb \in DOMAIN Play :
        /\ pb.season = season /\ pb.passer_player_id = pfr
        /\ pb.pass_attempt /\ ~pb.sack /\ pb.play_type # "qb_spike"
        /\ ~IsNull(pb.passing_yards)}

QualifyingRush(pfr, season) ==
    {pb \in DOMAIN Play :
        /\ pb.season = season /\ pb.rusher_player_id = pfr
        /\ pb.rush_attempt /\ ~IsNull(pb.rushing_yards)}

QualifyingReception(pfr, season) ==
    {pb \in DOMAIN Play :
        /\ pb.season = season /\ pb.receiver_player_id = pfr
        /\ pb.complete_pass /\ ~IsNull(pb.receiving_yards)}

\* the number of stored plays among rows
HowMany(rows) == SumFn([pb \in rows |-> Play[pb]], rows)

\* the k-th smallest yardage of the rows: fewer than k values lie below it
\* and at least k values are at most it
KthSmallest(rows, col, k) ==
    CHOOSE v \in {Val(pb[col]) : pb \in rows} :
        /\ HowMany({pb \in rows : Val(pb[col]) < v}) < k
        /\ k <= HowMany({pb \in rows : Val(pb[col]) <= v})

\* stored is the median of the rows' yardage: null for no row, the middle
\* value for an odd count, the mean of the two middle values for an even one
IsMedianOf(stored, rows, col) ==
    LET n == HowMany(rows)
    IN  IF n = 0 THEN IsNull(stored)
        ELSE /\ ~IsNull(stored)
             /\ Val(stored)[2] > 0
             /\ IF n % 2 = 1
                THEN Val(stored)[1] =
                       KthSmallest(rows, col, (n + 1) \div 2) * Val(stored)[2]
                ELSE 2 * Val(stored)[1] =
                       (KthSmallest(rows, col, n \div 2)
                          + KthSmallest(rows, col, n \div 2 + 1))
                       * Val(stored)[2]

\* the stored median of q's pass attempts of 2025 is the number m
PassMedianOfQ(m) ==
    \E ps \in BagToSet(PlayerStats) :
        /\ ps.playerId = PfrIndex("q") /\ ps.season = 2025
        /\ ~IsNull(ps.median_yards_per_pass_attempt)
        /\ Val(ps.median_yards_per_pass_attempt)[1]
             = m * Val(ps.median_yards_per_pass_attempt)[2]

\* C11: every stored per-attempt median of a role is the middle value of the
\* player's sorted qualifying yardages of the season when their count is odd,
\* the average of the two middle values when it is even, and null when the
\* player has no qualifying play in the role; passes of 2, 4, 4 and 6 yards
\* give 4 and passes of 3, 5 and 9 yards give 5.
C11_MedianIsMiddleValue ==
    /\ \A ps \in BagToSet(PlayerStats) : \A p \in Player :
          p.id = ps.playerId =>
            /\ IsMedianOf(ps.median_yards_per_pass_attempt,
                          QualifyingPass(p.pfr_id, ps.season), "passing_yards")
            /\ IsMedianOf(ps.median_yards_per_rushing_attempt,
                          QualifyingRush(p.pfr_id, ps.season), "rushing_yards")
            /\ IsMedianOf(ps.median_yards_per_reception,
                          QualifyingReception(p.pfr_id, ps.season),
                          "receiving_yards")
    /\ (upstream = GamePlays(<<1, 3, 3, 5>>) /\ last.op = "medians"
          /\ last.season = 2025) => PassMedianOfQ(4)
    /\ (upstream = GamePlays(<<2, 4, 6>>) /\ last.op = "medians"
          /\ last.season = 2025) => PassMedianOfQ(5)

\* the medians of 2025 were computed over passes of 2, 4, 4 and 6 yards: q
\* has the median 4, and r, who never ran, has no rushing median
C11_Witness ==
    /\ upstream = GamePlays(<<1, 3, 3, 5>>)
    /\ last.op = "medians" /\ last.season = 2025
    /\ PassMedianOfQ(4)
    /\ \E ps \in BagToSet(PlayerStats) :
          /\ ps.playerId = PfrIndex("r") /\ ps.season = 2025
          /\ IsNull(ps.median_yards_per_rushing_attempt)
          /\ ~IsNull(ps.median_yards_per_reception)

\* the player's passing plays of a week: pass attempts that are neither a
\* sack nor a spike
WeekPassAttempts(pfr, season, week) ==
    {pb \in DOMAIN Play :
        /\ pb.season = season /\ pb.week = week
        /\ pb.passer_player_id = pfr
        /\ pb.pass_attempt /\ ~pb.sack /\ pb.play_type # "qb_spike"}

\* the sum of a yardage column over rows, a play without yardage adding 0
YardsOf(rows, col) ==
    SumFn([pb \in rows |-> IF IsNull(pb[col]) THEN 0
                           ELSE Play[pb] * Val(pb[col])], rows)

\* C12: the passing yards of every weekly GameStat row are the sum of
\* passing_yards over the player's plays of that week with pass_attempt true,
\* sack false and a play type other than a spike, so a sack adds nothing;
\* and the per-attempt passing average of every PlayerStats row is taken over
\* exactly the qualifying attempts, none of them a sack.
C12_PassingTotalSkipsSacks ==
    /\ \A gs \in BagToSet(GameStat) : \A p \in Player :
          (p.id = gs.playerId /\ ~IsNull(gs.week)) =>
             gs.passingYds =
                YardsOf(WeekPassAttempts(p.pfr_id, gs.season, gs.week),
                        "passing_yards")
    /\ \A ps \in BagToSet(PlayerStats) : \A p \in Player :
          (p.id = ps.playerId /\ ~IsNull(ps.average_yards_per_pass_attempt)) =>
             LET seq == QualifyingPass(p.pfr_id, ps.season)
             IN  /\ \A pb \in seq : ~pb.sack
                 /\ Val(ps.average_yards_per_pass_attempt)
                      = <<YardsOf(seq, "passing_yards"), HowMany(seq)>>
                 /\ IsMedianOf(ps.median_yards_per_pass_attempt, seq,
                               "passing_yards")

\* q's week is a 5 yard pass, a 9 yard pass and a sack: the weekly total is
\* 14 over 2 attempts with 1 sack, and the average is taken over 2 values
C12_Witness ==
    /\ upstream = GamePlays(<<4, 6, 7>>)
    /\ \E gs \in BagToSet(GameStat) :
          /\ gs.playerId = PfrIndex("q") /\ gs.season = 2025
          /\ gs.week = Some(1)
          /\ gs.passingYds = 14 /\ gs.passing_attempts = 2
          /\ gs.passing_sacks = 1
    /\ \E ps \in BagToSet(PlayerStats) :
          /\ ps.playerId = PfrIndex("q") /\ ps.season = 2025
          /\ ps.average_yards_per_pass_attempt = Some(<<14, 2>>)
          /\ ps.median_yards_per_pass_attempt = Some(<<14, 2>>)

(***************************************************************************)
(* Claims about the efficiency metrics, checked under Spec.                *)
(***************************************************************************)

\* the weekly EPA stage of the current run has ended, and every stage of the
\* run so far did its work
WeeklyEpaDone ==
    /\ orch.pc # "idle" /\ orch.clean
    /\ \E k \in 1..Len(log) :
          log[k] = [ev |-> "end", stage |-> "weekly_epa", exit |-> 0]

\* the provider's plays of a week that count for a player's role in the
\* weekly EPA: pass attempts as passer, rush attempts as rusher, pass
\* attempts as receiver
EpaPlays(role, pfr, season, week) ==
    {u \in upstream :
        /\ u.season = season /\ u.week = week
        /\ CASE role = "passing"   -> u.pass_attempt
                                      /\ u.passer_player_id = pfr
             [] role = "rushing"   -> u.rush_attempt
                                      /\ u.rusher_player_id = pfr
             [] role = "receiving" -> u.pass_attempt
                                      /\ u.receiver_player_id = pfr}

EpaTotal(plays) ==
    SumFn([u \in plays |-> IF IsNull(u.epa) THEN 0 ELSE Val(u.epa)], plays)

EpaRoles == {"passing", "rushing", "receiving"}

RoleEpaColumn(gs, role) ==
    CASE role = "passing"   -> gs.passing_epa
      [] role = "rushing"   -> gs.rushing_epa
      [] role = "receiving" -> gs.receiving_epa

SeasonEpaPlays(role, pfr, season) ==
    {u \in upstream :
        /\ u.season = season
        /\ CASE role = "passing"   -> u.pass_attempt
                                      /\ u.passer_player_id = pfr
             [] role = "rushing"   -> u.rush_attempt
                                      /\ u.rusher_player_id = pfr
             [] role = "receiving" -> u.pass_attempt
                                      /\ u.receiver_player_id = pfr}

\* the rows of AdvancedMetrics of the seasons keep a zero role EPA as zero
ZeroEpaKept(seasons) ==
    \A am \in BagToSet(AdvancedMetrics) : \A p \in Player :
    \A role \in EpaRoles :
        (p.id = am.playerId /\ am.season \in seasons) =>
           LET plays == SeasonEpaPlays(role, p.pfr_id, am.season)
           IN  (plays # {} /\ EpaTotal(plays) = 0) =>
                  RoleEpaColumn(am, role) = Some(0)

\* C14: in every AdvancedMetrics row, of the current season (computed from
\* the raw plays) and of an earlier season (computed from the weekly GameStat
\* rows), a role EPA is 0 and not null when the player has plays of that role
\* in the season and their EPA sums to exactly zero.
C14_SeasonalZeroIsKept == ZeroEpaKept(Seasons)

\* the same for the rows computed from the raw plays only
C14_RawStrategyKeepsZero == ZeroEpaKept({CurrentSeason})

\* run_update for the season has returned True with every stage having done
\* its work, and the season's AdvancedMetrics have been computed: by stage 5
\* for the current season, by the batch script for an earlier one
FullRunDone(y) ==
    /\ orch.pc = "done" /\ orch.year = y
    /\ orch.ret = Some(TRUE) /\ orch.clean
    /\ y # CurrentSeason =>
          (orch.mode = "single" /\ orch.main = "exited" /\ orch.batch = "ok")

WeeklyOf(player_id, y) == WeeklyRowsOf(GameStat, player_id, y)

\* SUM(col) over the player's weekly rows, no value counting as 0
WeeklySum(player_id, y, col) ==
    LET vals == {g \in WeeklyOf(player_id, y) : ~IsNull(g[col])}
    IN  SumFn([g \in vals |-> GameStat[g] * Val(g[col])], vals)

\* the seasonal value of the player, no row or no value counting as 0
SeasonalValue(player_id, y, col) ==
    LET rows == {am \in BagToSet(AdvancedMetrics) :
                    am.playerId = player_id /\ am.season = y
                    /\ ~IsNull(am[col])}
    IN  IF rows = {} THEN 0 ELSE Val((CHOOSE am \in rows : TRUE)[col])

Abs(n) == IF n < 0 THEN 0 - n ELSE n

\* the two values differ by more than 0.1
Mismatch(player_id, y, col) ==
    10 * Abs(WeeklySum(player_id, y, col) - SeasonalValue(player_id, y, col))
       > 1

HasEpaData(player_id, y) ==
    \E g \in WeeklyOf(player_id, y) : ~IsNull(g.epa)

\* C15: after a successful full run for a season, for every player with a
\* weekly GameStat row carrying EPA data, the sum of the weekly rushing_epa
\* is within 0.1 of the season's AdvancedMetrics rushing_epa, and likewise
\* for receiving_epa.
C15_WeeklySumsMatchSeason ==
    \A y \in Seasons : FullRunDone(y) =>
        \A p \in Player : HasEpaData(p.id, y) =>
            /\ ~Mismatch(p.id, y, "rushing_epa")
            /\ ~Mismatch(p.id, y, "receiving_epa")

\* the same for an earlier season only, whose seasonal values are sums of
\* the weekly ones
C15_HistoricalSumsMatch ==
    \A y \in Seasons \ {CurrentSeason} : FullRunDone(y) =>
        \A p \in Player : HasEpaData(p.id, y) =>
            /\ ~Mismatch(p.id, y, "rushing_epa")
            /\ ~Mismatch(p.id, y, "receiving_epa")

\* the verification of the weekly EPA stage has just printed its report
VerificationJustRan ==
    /\ orch.pc # "idle" /\ log # <<>>
    /\ log[Len(log)] = [ev |-> "end", stage |-> "weekly_epa", exit |-> 0]
    /\ last.op = "verify" /\ last.season = orch.year

\* the players of the season with weekly rows whose summed weekly rushing or
\* receiving EPA is more than 0.1 away from the seasonal value
Mismatching(y) ==
    {p.pfr_id : p \in {x \in Player :
        /\ WeeklyOf(x.id, y) # {}
        /\ \/ Mismatch(x.id, y, "rushing_epa")
           \/ Mismatch(x.id, y, "receiving_epa")}}

\* C16: the reconciliation check reports every player of the season whose
\* summed weekly rushing or receiving EPA differs from the seasonal value by
\* more than 0.1, with or without an AdvancedMetrics row.
C16_EveryMismatchReported ==
    VerificationJustRan => Mismatching(orch.year) \subseteq last.reported

\* the players the check does report are mismatching ones
C16_ReportedAreMismatches ==
    VerificationJustRan => last.reported \subseteq Mismatching(orch.year)

\* C17: when the reconciliation check has found mismatching players, the
\* weekly EPA stage ends with exit code 0 and run_update goes on to the CPOE
\* overlay; once the overlay has been started, the check's report is still
\* the last thing the weekly EPA stage left.
C17_MismatchDoesNotAbort ==
    (/\ orch.pc # "idle" /\ log # <<>>
     /\ log[Len(log)].ev = "end" /\ log[Len(log)].stage = "weekly_epa"
     /\ last.op = "verify" /\ last.reported # {}) =>
        /\ log[Len(log)].exit = 0
        /\ orch.pc = "stage" /\ ~orch.running
        /\ StageOrder[orch.next] = "cpoe"
        /\ ENABLED StartStage

\* the check of the 2025 run reported r, whose seasonal rushing EPA counts a
\* post-season run, and the overlay is the next stage
C17_Witness ==
    /\ orch.pc = "stage" /\ orch.year = 2025 /\ log # <<>>
    /\ log[Len(log)] = [ev |-> "end", stage |-> "weekly_epa", exit |-> 0]
    /\ last.op = "verify" /\ last.reported = {"r"}
    /\ StageOrder[orch.next] = "cpoe"

-----------------------------------------------------------------------------
(* Player identity, under SpecTables *)

\* health_check.py: the number of pfr_id values held by more than one row
DuplicatePfrIds(players) ==
    Cardinality({pfr \in {p.pfr_id : p \in players} :
                    Cardinality({p \in players : p.pfr_id = pfr}) > 1})

\* C18: whichever of the Player Resolver and the seasonal loader runs, no
\* two Player rows have the same pfr_id afterwards, and every pfr_id that
\* was stored before the run is still stored under the same internal id.
C18_PfrIdUnique ==
    [][/\ DuplicatePfrIds(Player') = 0
       /\ \A p \in Player : \E q \in Player' :
             q.pfr_id = p.pfr_id /\ q.id = p.id]_vars

\* the Player Resolver has just rewritten the name of a player whom the
\* seasonal loader had stored without a roster
C18_Witness ==
    /\ last.op = "players"
    /\ \E p \in last.before : \E q \in Player :
          q.pfr_id = p.pfr_id /\ q.id = p.id /\ q.name # p.name

-----------------------------------------------------------------------------
(* Season scope of the writes, under Spec *)

\* the tables as they are after the step
TablesAfter ==
    [Play |-> Play', GameStat |-> GameStat', PlayerStats |-> PlayerStats',
     AdvancedMetrics |-> AdvancedMetrics']

\* some row of the season is added, removed or rewritten by the step
SeasonTouched(season) ==
    \E t \in DOMAIN Tables :
        SeasonRows(TablesAfter[t], season) # SeasonRows(Tables[t], season)

\* C19: the purge and every stage of run_update(Y) leave the rows of every
\* other season in Play, GameStat, PlayerStats and AdvancedMetrics as they
\* were; the only other step that rewrites rows is the batch at the end of
\* __main__, which rewrites AdvancedMetrics rows of the seasons it is given.
C19_OtherSeasonsUntouched ==
    [][\A s \in ProviderSeasons : SeasonTouched(s) =>
          \/ orch.pc \in {"clear", "stage"} /\ orch.year = s
          \/ /\ orch.pc = "done" /\ orch.main = "run" /\ orch'.main = "exited"
             /\ s \in BatchYears
             /\ \A t \in DOMAIN Tables \ {"AdvancedMetrics"} :
                   TablesAfter[t] = Tables[t]]_vars

\* the 2025 run has just rebuilt its weekly rows while the store holds the
\* plays, the weekly rows and the seasonal metrics of 2024
C19_Witness ==
    /\ orch.pc = "stage" /\ orch.year = 2025 /\ log # <<>>
    /\ log[Len(log)] = [ev |-> "end", stage |-> "gamestat", exit |-> 0]
    /\ SeasonCount(GameStat, 2025) > 0
    /\ \A t \in {"Play", "GameStat", "AdvancedMetrics"} :
          SeasonCount(Tables[t], 2024) > 0

-----------------------------------------------------------------------------
(* The strategy that computes the seasonal metrics, under Spec *)

\* the strategies that computed the AdvancedMetrics of a season during the
\* invocation of __main__ that has just exited
StrategiesOf(y) ==
    (IF y \in orch.raw THEN {"raw"} ELSE {})
      \cup (IF y \in orch.weekly THEN {"weekly"} ELSE {})

\* __main__ has exited and no script it launched for the seasonal metrics
\* has failed
MainExitedCleanly ==
    /\ orch.pc = "done" /\ orch.main = "exited"
    /\ orch.batch # "failed"

\* C20: once __main__ has exited, every season whose run_update returned
\* True has its AdvancedMetrics computed by exactly one strategy: from the
\* raw plays when it is the current year's season, from the weekly GameStat
\* rows when it is an earlier season.
C20_ExactlyOneStrategy ==
    MainExitedCleanly =>
        \A y \in orch.ok :
            StrategiesOf(y) = IF y = CurrentYear THEN {"raw"} ELSE {"weekly"}

\* as long as the current year is 2025 the selection is as stated
C20_SelectionIn2025 ==
    (MainExitedCleanly /\ CurrentYear = CurrentSeason) =>
        \A y \in orch.ok :
            StrategiesOf(y) = IF y = CurrentYear THEN {"raw"} ELSE {"weekly"}

\* an all-years invocation in 2025 in which both run_update calls succeeded
C20_SelectionIn2025_Witness ==
    /\ MainExitedCleanly /\ CurrentYear = CurrentSeason
    /\ orch.mode = "all" /\ orch.ok = {2024, 2025}
    /\ orch.raw = {2025} /\ orch.weekly = {2024}

\* an all-years invocation a year later: the run of the current year's
\* season succeeded and stored weekly rows, and no strategy computed its
\* seasonal metrics
C20_SeasonLeftWithout ==
    /\ MainExitedCleanly /\ orch.mode = "all"
    /\ CurrentYear \in orch.ok /\ StrategiesOf(CurrentYear) = {}
    /\ SeasonCount(GameStat, CurrentYear) > 0
    /\ SeasonCount(AdvancedMetrics, CurrentYear) = 0

-----------------------------------------------------------------------------
(* The rows the weekly rebuild emits, under SpecYards *)

\* the rebuild of the season has just run
GameStatRebuilt == last.op = "gamestat"

\* the yardage totals of a player-week as the aggregator takes them
WeekTotals(pw) ==
    LET row == Aggregated(pw)
    IN  <<row.passingYds, row.rushingYds, row.receivingYds>>

\* the stored rows of a player-week
WeekRowsOf(pw) ==
    {gs \in BagToSet(GameStat) :
        gs.playerId = pw.player_id /\ gs.season = pw.season
        /\ gs.week = pw.week}

\* C21: after the rebuild a player-week of the season's plays has a GameStat
\* row if and only if one of its passing, rushing and receiving yard totals
\* is not zero, a negative total included; no other pair has a row.
C21_RowIffNonzeroTotal ==
    GameStatRebuilt =>
        /\ \A pw \in PlayerWeeks(last.season) :
              (WeekRowsOf(pw) # {}) <=>
                  (\E k \in 1..3 : WeekTotals(pw)[k] # 0)
        /\ \A gs \in BagToSet(GameStat) : gs.season = last.season =>
              \E pw \in PlayerWeeks(last.season) : gs \in WeekRowsOf(pw)

\* what the code does: a row if and only if one of the totals is positive
C21_RowIffPositiveTotal ==
    GameStatRebuilt =>
        /\ \A pw \in PlayerWeeks(last.season) :
              (WeekRowsOf(pw) # {}) <=>
                  (\E k \in 1..3 : WeekTotals(pw)[k] > 0)
        /\ \A gs \in BagToSet(GameStat) : gs.season = last.season =>
              \E pw \in PlayerWeeks(last.season) : gs \in WeekRowsOf(pw)

\* r's only play of the week is a run that lost two yards, and the rebuild
\* stored no row for r
C21_NegativeWeekDropped ==
    /\ GameStatRebuilt
    /\ \E pw \in PlayerWeeks(last.season) :
          /\ pw.pfr_id = "r"
          /\ WeekTotals(pw) = <<0, -2, 0>>
          /\ WeekRowsOf(pw) = {}

-----------------------------------------------------------------------------
(* The weekly rebuild as a full replace, under SpecRebuild *)

RebuildJustRan == last.op = "rebuild"

\* C22: after a run of the rebuild for season Y that succeeded, the GameStat
\* rows of Y are exactly the rows derived from the stored plays and players,
\* whatever rows of Y there were before, and the rows of the other seasons
\* are as before; after a run that failed, GameStat is as it was before.
C22_FullReplaceOrNothing ==
    RebuildJustRan =>
        IF last.exit = 0
        THEN /\ SeasonRows(GameStat, last.season)
                  = SetToBag(WeeklyRows(last.season))
             /\ OtherSeasons(GameStat, last.season)
                  = OtherSeasons(last.before, last.season)
        ELSE GameStat = last.before

\* the rebuild of a season has replaced rows of which some were season rows
\* of the seasonal loader, and now holds weekly rows only
C22_Witness ==
    /\ RebuildJustRan /\ last.exit = 0
    /\ \E gs \in BagToSet(last.before) :
          gs.season = last.season /\ IsNull(gs.week)
    /\ SeasonCount(GameStat, last.season) > 0
    /\ \A gs \in BagToSet(GameStat) :
          gs.season = last.season => ~IsNull(gs.week)

\* the INSERT of a rebuild failed on a season that had rows, and they are
\* still stored
C22_FailedRebuildKeepsRows ==
    /\ RebuildJustRan /\ last.fault = "insert"
    /\ SeasonCount(last.before, last.season) > 0
    /\ SeasonCount(GameStat, last.season) > 0

-----------------------------------------------------------------------------
(* The frame of the weekly EPA stage, under Spec *)

\* the weekly EPA stage of run_update is running
WeeklyEpaRunning ==
    /\ orch.pc = "stage" /\ orch.running
    /\ StageOrder[orch.next] = "weekly_epa"

\* the rows of a GameStat table without their EPA and success-rate columns:
\* the key, the boxscore fields and cpoe
WithoutEpa(B) ==
    BagOfAll(LAMBDA gs : [c \in (DOMAIN gs) \ EpaCols |-> gs[c]], B)

\* C23: the weekly EPA stage leaves the number of GameStat rows as it was,
\* leaves every row of another season as it was, and leaves every column
\* other than the EPA and success-rate columns of every row as it was.
C23_OnlyEpaColumnsChange ==
    [][WeeklyEpaRunning =>
          /\ BagCardinality(GameStat') = BagCardinality(GameStat)
          /\ WithoutEpa(GameStat') = WithoutEpa(GameStat)
          /\ OtherSeasons(GameStat', orch.year)
               = OtherSeasons(GameStat, orch.year)]_vars

\* the weekly EPA stage of 2025 has ended: q's week 1 row has its passing
\* EPA, and still its 10 passing yards, its sack and its cpoe
C23_Witness ==
    /\ orch.pc = "stage" /\ orch.year = 2025 /\ log # <<>>
    /\ log[Len(log)] = [ev |-> "end", stage |-> "weekly_epa", exit |-> 0]
    /\ \E gs \in BagToSet(GameStat) :
          /\ gs.season = 2025 /\ gs.week = Some(1)
          /\ ~IsNull(gs.passing_epa) /\ ~IsNull(gs.epa)
          /\ gs.passingYds = 10 /\ gs.passing_sacks = 1
          /\ gs.cpoe = Some(<<5, 1>>)

-----------------------------------------------------------------------------
(* The qualification of plays in the two weekly stages, under Spec *)

\* the number of plays the weekly EPA stage counted for a role of a row: the
\* divisor of the role's EPA per play, 0 when the column is null
EpaPlayCount(gs, role) ==
    LET per == CASE role = "passing"   -> gs.passing_epa_per_play
                 [] role = "rushing"   -> gs.rushing_epa_per_play
                 [] role = "receiving" -> gs.receiving_epa_per_play
    IN  IF IsNull(per) THEN 0 ELSE Val(per)[2]

\* the number of plays the Game-Week Aggregator counted for a role of a row
BoxscorePlayCount(gs, role) ==
    CASE role = "passing"   -> gs.passing_attempts
      [] role = "rushing"   -> gs.rushing_attempts
      [] role = "receiving" -> gs.targets

\* the weekly rows of the season of a run that started on an empty store
\* and in which every stage so far did its work
FreshWeeklyRows ==
    IF WeeklyEpaDone /\ orch.into_empty
    THEN {gs \in BagToSet(GameStat) :
            gs.season = orch.year /\ ~IsNull(gs.week)}
    ELSE {}

\* C24: in every weekly row, the weekly EPA stage has counted for each role
\* as many plays as the Game-Week Aggregator counted attempts of that role:
\* passing attempts (no sack, no spike), rushing attempts, targets.
C24_SameQualification ==
    \A gs \in FreshWeeklyRows : \A role \in EpaRoles :
        EpaPlayCount(gs, role) = BoxscorePlayCount(gs, role)

\* the stored plays of the row's week in which its player is the passer of
\* a pass attempt, sacks and spikes included
PassAttemptsAsPasser(gs) ==
    {pb \in DOMAIN Play :
        /\ pb.season = gs.season /\ pb.week = gs.week /\ pb.pass_attempt
        /\ \E p \in Player : p.id = gs.playerId
                             /\ p.pfr_id = pb.passer_player_id}

\* what holds instead: the passing EPA counts every pass attempt of the
\* passer, sacks and spikes included, so its play count is the boxscore's
\* passing attempts plus the sacks and spikes; the rushing and the receiving
\* counts are the boxscore's rushing attempts and targets.
C24_EpaCountsEveryPassAttempt ==
    \A gs \in FreshWeeklyRows :
        /\ EpaPlayCount(gs, "passing") = CountRows(PassAttemptsAsPasser(gs))
        /\ EpaPlayCount(gs, "passing") >= gs.passing_attempts
        /\ \A role \in {"rushing", "receiving"} :
              EpaPlayCount(gs, role) = BoxscorePlayCount(gs, role)

\* q's week 1 of 2025, a completed pass and a sack: one passing attempt in
\* the boxscore, two plays in the passing EPA
C24_SackCountedInEpa ==
    \E gs \in FreshWeeklyRows :
        /\ gs.season = 2025 /\ gs.week = Some(1)
        /\ gs.passing_attempts = 1 /\ gs.passing_sacks = 1
        /\ EpaPlayCount(gs, "passing") = 2

-----------------------------------------------------------------------------
(* The seasonal EPA of the current season, under SpecSeasonEpa *)

\* populate_2025_all_positions.py has run and has fetched the plays
SeasonalEpaRan == last.op = "seasonal_epa" /\ last.fetch = "ok"

\* the provider's plays of the current season that count for a player's
\* role: pass attempts as passer, rush attempts as rusher, pass attempts as
\* receiver
SeasonRolePlays(role, pfr) ==
    {u \in upstream :
        /\ u.season = CurrentSeason
        /\ CASE role = "passing"   -> u.pass_attempt
                                      /\ u.passer_player_id = pfr
             [] role = "rushing"   -> u.rush_attempt
                                      /\ u.rusher_player_id = pfr
             [] role = "receiving" -> u.pass_attempt
                                      /\ u.receiver_player_id = pfr}

\* the known passers of the season's plays
KnownPassers ==
    {p \in Player : SeasonRolePlays("passing", p.pfr_id) # {}}

RolePerPlayColumn(am, role) ==
    CASE role = "passing"   -> am.passing_epa_per_play
      [] role = "rushing"   -> am.rushing_epa_per_play
      [] role = "receiving" -> am.receiving_epa_per_play

\* the player has exactly one row of the current season, and in it every
\* role's EPA and play count are the sum and the number of the role's plays
CountedOnce(p) ==
    LET rows == {am \in DOMAIN AdvancedMetrics :
                    am.playerId = p.id /\ am.season = CurrentSeason}
    IN  /\ Cardinality(rows) = 1
        /\ \A am \in rows :
              /\ AdvancedMetrics[am] = 1
              /\ \A role \in EpaRoles :
                    LET plays == SeasonRolePlays(role, p.pfr_id)
                    IN  IF plays = {}
                        THEN /\ IsNull(RoleEpaColumn(am, role))
                             /\ IsNull(RolePerPlayColumn(am, role))
                        ELSE /\ RoleEpaColumn(am, role)
                                  = Some(EpaTotal(plays))
                             /\ RolePerPlayColumn(am, role)
                                  = Some(<<EpaTotal(plays),
                                           Cardinality(plays)>>)

\* the player has a play of some role in the season
HasRolePlay(p) ==
    \E role \in EpaRoles : SeasonRolePlays(role, p.pfr_id) # {}

\* C25: after the seasonal EPA of the current season has run, every known
\* player with a play in some role has one AdvancedMetrics row in which each
\* role's EPA and play count are the sum and the number of the player's
\* plays of that role, each play counted once, however many passers the
\* data has and in whichever other roles the player appears.
C25_EveryPlayCountedOnce ==
    SeasonalEpaRan => \A p \in Player : HasRolePlay(p) => CountedOnce(p)

\* with exactly one known passer in the data every play is counted once
C25_CountedOnceWithOnePasser ==
    (SeasonalEpaRan /\ Cardinality(KnownPassers) = 1) =>
        \A p \in Player : HasRolePlay(p) => CountedOnce(p)

\* a game with one passer: q passes to r and is sacked, r runs; both have
\* their row
C25_CountedOnceWithOnePasser_Witness ==
    /\ SeasonalEpaRan /\ last.exit = 0
    /\ upstream = EpaGamePlays(<<1, 2, 3>>)
    /\ \A p \in Player : CountedOnce(p)

\* a game with two passers: q passes to r, r runs and r passes to q; the
\* script fails and no player has a row
C25_TwoPassersNoRow ==
    /\ SeasonalEpaRan /\ last.exit # 0
    /\ upstream = EpaGamePlays(<<1, 3, 4>>)
    /\ AdvancedMetrics = EmptyBag

-----------------------------------------------------------------------------
(* The position the Player Resolver gives a participant, under SpecStats *)

PlayersResolved == last.op = "players"

\* the participants of the stored plays of the resolved season
Participants == {pn[1] : pn \in PlayersFromPbp(last.season)}

\* the position inferred from play participation: passing attempts give a
\* quarterback, more carries than targets a running back, otherwise a receiver
InferredPosition(id) ==
    LET plays   == {pb \in DOMAIN Play : pb.season = last.season}
        attempt == {pb \in plays : pb.passer_player_id = id /\ pb.pass_attempt}
        carries == {pb \in plays : pb.rusher_player_id = id /\ pb.rush_attempt}
        targets == {pb \in plays : pb.receiver_player_id = id
                                   /\ pb.pass_attempt}
    IN  IF attempt # {} THEN "QB"
        ELSE IF CountRows(carries) > CountRows(targets) THEN "RB"
        ELSE "WR"

\* the roster had a position for the participant in this run
OnRoster(id) == last.roster = "ok" /\ id \in DOMAIN RosterPosition

\* C26: after the Player Resolver has run, every participant of the season's
\* plays is stored with the roster position when the roster has one and
\* with the position inferred from its plays otherwise, and no stored player
\* is without a position.
C26_ThreeBranchRule ==
    PlayersResolved =>
        /\ \A id \in Participants : \E p \in Player :
              /\ p.pfr_id = id
              /\ p.position = IF OnRoster(id) THEN RosterPosition[id]
                              ELSE InferredPosition(id)
        /\ \A p \in Player : p.position \in {"QB", "RB", "WR", "TE"}

\* what the resolver does: a participant on the roster is stored with the
\* roster position, any other participant is skipped, and no stored player
\* is without a position
C26_RosterOrSkipped ==
    PlayersResolved =>
        /\ \A id \in Participants :
              IF OnRoster(id)
              THEN \E p \in Player : p.pfr_id = id
                                     /\ p.position = RosterPosition[id]
              ELSE \A p \in Player : p.pfr_id = id => p \in last.before
        /\ \A p \in Player : p.position \in {"QB", "RB", "WR", "TE"}

\* the resolver ran for 2025 with the roster: q and r are stored, and x, who
\* caught a pass and is on no roster, is not
C26_RosterOrSkipped_Witness ==
    /\ PlayersResolved /\ last.season = 2025 /\ last.roster = "ok"
    /\ Participants = {"q", "r", "x"}
    /\ {p.pfr_id : p \in Player} = {"q", "r"}

-----------------------------------------------------------------------------
(* Failing stages and failing purges, under Spec *)

\* the step ends a stage of run_update whose script failed
StageFails ==
    /\ orch.pc = "stage" /\ orch.running
    /\ Len(log') = Len(log) + 1
    /\ log'[Len(log')].ev = "end" /\ log'[Len(log')].exit # 0

\* the step is a purge that failed
PurgeFails == orch.pc = "clear" /\ orch'.purge = "failed"

\* C27: a stage or a purge that fails leaves no write behind: the five
\* tables are after the step as they were before it.
C27_FailedStageWritesNothing ==
    [][(StageFails \/ PurgeFails) => UNCHANGED dbvars]_vars

\* every stage but the CPOE overlay commits once, after its last statement
C27_SingleCommitStages ==
    [][(StageFails /\ StageOrder[orch.next] # "cpoe")
          => UNCHANGED dbvars]_vars

\* the seasonal EPA stage of 2025 has just failed on a store that holds the
\* weekly rows of the season
C27_SingleCommitStages_Witness ==
    /\ orch.pc = "done" /\ orch.year = 2025 /\ orch.ret = Some(FALSE)
    /\ log # <<>>
    /\ log[Len(log)].ev = "end" /\ log[Len(log)].stage = "seasonal_epa"
    /\ log[Len(log)].exit = 1
    /\ SeasonCount(GameStat, 2025) > 0

\* the CPOE overlay of 2025 has died after its first UPDATE: the row it
\* reached has the provider's cpoe, committed, and the script exited with 1
C27_OverlayHalfWritten ==
    /\ orch.pc = "done" /\ orch.year = 2025 /\ log # <<>>
    /\ log[Len(log)] = [ev |-> "end", stage |-> "cpoe", exit |-> 1]
    /\ \E gs \in BagToSet(GameStat) :
          gs.season = 2025 /\ gs.week = Some(1) /\ gs.cpoe = Some(<<7, 1>>)

-----------------------------------------------------------------------------
(* PlayerStats of the players of a run, under Spec *)

RoleFilters == {"pass", "rush", "recv"}

\* the player has a play of the season that qualifies for the role's vector
HasQualifyingPlay(p, y, role) ==
    \E pb \in DOMAIN Play :
        CASE role = "pass" -> PassVecFilter(pb, y, p.pfr_id)
          [] role = "rush" -> RushVecFilter(pb, y, p.pfr_id)
          [] OTHER         -> RecvVecFilter(pb, y, p.pfr_id)

MedianColumn(role) ==
    CASE role = "pass" -> "median_yards_per_pass_attempt"
      [] role = "rush" -> "median_yards_per_rushing_attempt"
      [] OTHER         -> "median_yards_per_reception"

AverageColumn(role) ==
    CASE role = "pass" -> "average_yards_per_pass_attempt"
      [] role = "rush" -> "average_yards_per_rushing_attempt"
      [] OTHER         -> "average_yards_per_reception"

\* the player has a PlayerStats row of the season with the role's figures
HasRoleStats(p, y, role) ==
    \E ps \in BagToSet(PlayerStats) :
        /\ ps.playerId = p.id /\ ps.season = y
        /\ ~IsNull(ps[MedianColumn(role)])
        /\ ~IsNull(ps[AverageColumn(role)])

StatsComplete(y) ==
    \A p \in Player : \A role \in RoleFilters :
        HasQualifyingPlay(p, y, role) => HasRoleStats(p, y, role)

\* run_update has returned True, every stage having done its work
RunUpdateSucceeded ==
    orch.pc = "done" /\ orch.ret = Some(TRUE) /\ orch.clean

\* C28: once run_update(Y) has returned True, every row of Player with a
\* qualifying play of Y in a role has a PlayerStats row of (player, Y) with
\* the role's median and average, the players that the same run added to
\* Player included.
C28_EveryPlayerHasStats == RunUpdateSucceeded => StatsComplete(orch.year)

\* the statistics stage itself leaves no player of the Player table of that
\* moment without the figures of a role in which the player has a play
C28_KnownPlayersHaveStats ==
    (/\ orch.pc = "stage" /\ log # <<>>
     /\ log[Len(log)] = [ev |-> "end", stage |-> "medians", exit |-> 0]
     /\ orch.clean)
       => StatsComplete(orch.year)

\* the statistics stage has just given a player of an earlier run the
\* figures of this season
C28_KnownPlayersHaveStats_Witness ==
    /\ orch.pc = "stage" /\ log # <<>>
    /\ log[Len(log)] = [ev |-> "end", stage |-> "medians", exit |-> 0]
    /\ orch.clean
    /\ \E p \in Player : HasRoleStats(p, orch.year, "pass")

\* a successful first run for 2025 ends with a passer of the season in
\* Player and no PlayerStats row of the season at all
C28_NewPlayerWithoutStats ==
    /\ RunUpdateSucceeded /\ orch.year = 2025
    /\ \E p \in Player : HasQualifyingPlay(p, 2025, "pass")
    /\ SeasonCount(PlayerStats, 2025) = 0

-----------------------------------------------------------------------------
(* The all-years loop of __main__ over the seasons before 2025 and the      *)
(* batch that follows it, run_update being taken by its result: the weekly  *)
(* rows of its season rebuilt when it returns True, nothing written after   *)
(* the purge when it returns False.                                         *)

\* the years of years_to_load before 2025, of which the last three are kept
HistoricalYearsToLoad == <<2022, 2023, 2024>>

HistoricalSeasons == {HistoricalYearsToLoad[i] : i \in DOMAIN HistoricalYearsToLoad}

\* the weekly GameStat row of the one player of a season, with a passing EPA
BatchWeeklyRow(y, v) ==
    [c \in EpaCols \cup {"cpoe", "playerId", "season", "week"} |->
        CASE c = "playerId" -> 1
          [] c = "season"   -> y
          [] c = "week"     -> Some(1)
          [] c \in {"passing_epa", "epa"} -> Some(v)
          [] OTHER -> Null]

\* the store before the loop: a season has no weekly row, or the weekly row
\* of an earlier run (of EPA 1, where a run of this loop writes 2), with or
\* without the seasonal row computed from it
InitBatch ==
    /\ \E had \in [HistoricalSeasons -> {"none", "weekly", "both"}] :
          LET gs == {BatchWeeklyRow(y, 1) :
                        y \in {x \in HistoricalSeasons : had[x] # "none"}}
          IN  /\ GameStat = SetToBag(gs)
              /\ AdvancedMetrics =
                    SetToBag(HistoricalMetrics(
                        SetToBag(gs),
                        {x \in HistoricalSeasons : had[x] = "both"}, {}))
    /\ \E clear \in BOOLEAN :
          orch = [pc |-> "loop", mode |-> "all", clear |-> clear,
                  todo |-> HistoricalYearsToLoad, ok |-> {},
                  year |-> 0, ret |-> Null]
    /\ upstream = {}
    /\ Play = EmptyBag
    /\ Player = {}
    /\ PlayerStats = EmptyBag
    /\ log = <<>>
    /\ last = NoLast
    /\ fresh = <<>>
    /\ runs = 0

\* success = run_update(year, clear=clear) for the next year of the loop
BatchLoopRunUpdate ==
    /\ orch.pc = "loop" /\ orch.todo # <<>>
    /\ LET y      == Head(orch.todo)
           purged == IF orch.clear THEN ClearSeasonData(y, 0).tables
                     ELSE Tables
       IN  \E success \in BOOLEAN :
             /\ GameStat' =
                   IF success
                   THEN OtherSeasons(purged.GameStat, y)
                           (+) SetToBag({BatchWeeklyRow(y, 2)})
                   ELSE purged.GameStat
             /\ AdvancedMetrics' = purged.AdvancedMetrics
             /\ orch' = [orch EXCEPT !.todo = Tail(@), !.ok = SuccessfulYears,
                                     !.year = y, !.ret = Some(success)]
    /\ UNCHANGED <<upstream, Play, Player, PlayerStats, log, last, fresh, runs>>

\* after the loop: populate_historical_advanced_metrics.py min_year max_year
BatchAfterLoop ==
    /\ orch.pc = "loop" /\ orch.todo = <<>>
    /\ IF BatchYears = {}
       THEN UNCHANGED AdvancedMetrics
       ELSE \E out \in BatchOutcomes(BatchYears) :
              AdvancedMetrics' =
                 IF out.kind = "crash" THEN AdvancedMetrics
                 ELSE PopulateHistoricalMetrics(AdvancedMetrics, GameStat,
                                                BatchYears, out.failing)
    /\ orch' = [orch EXCEPT !.pc = "exited", !.ok = SuccessfulYears]
    /\ last' = [op |-> "batch", before |-> AdvancedMetrics,
                years |-> BatchYears]
    /\ UNCHANGED <<upstream, Play, Player, PlayerStats, GameStat, log, fresh,
                   runs>>

NextBatch == BatchLoopRunUpdate \/ BatchAfterLoop

SpecBatch == InitBatch /\ [][NextBatch]_vars

BatchJustRan == orch.pc = "exited" /\ last.op = "batch"

\* the batch left the season's AdvancedMetrics rows as they were
MetricsKept(y) ==
    SeasonRows(AdvancedMetrics, y) = SeasonRows(last.before, y)

\* C29: in the all-years mode the batch deletes and recomputes the
\* AdvancedMetrics rows of the seasons whose run_update returned True only:
\* the rows of a season whose run failed are as they were before the batch.
C29_FailedSeasonUntouched ==
    BatchJustRan => \A y \in HistoricalSeasons \ orch.ok : MetricsKept(y)

\* the batch changes no AdvancedMetrics row of a season outside the range
\* from the first to the last successful season
C29_OutsideRangeUntouched ==
    BatchJustRan =>
       \A y \in HistoricalSeasons :
          (\/ \A a \in orch.ok : y < a
           \/ \A b \in orch.ok : b < y) => MetricsKept(y)

\* the batch has recomputed the rows of two successful seasons and kept the
\* rows of the failed season after them
C29_OutsideRangeUntouched_Witness ==
    /\ BatchJustRan /\ orch.ok = {2022, 2023}
    /\ ~MetricsKept(2022) /\ ~MetricsKept(2023)
    /\ SeasonCount(AdvancedMetrics, 2024) > 0 /\ MetricsKept(2024)

\* 2022 and 2024 succeeded, 2023 failed, and the batch has removed the
\* AdvancedMetrics rows that 2023 had
C29_FailedSeasonRecomputed ==
    /\ BatchJustRan /\ orch.ok = {2022, 2024}
    /\ SeasonCount(last.before, 2023) > 0
    /\ ~MetricsKept(2023)

-----------------------------------------------------------------------------
(* A purge that fails, under Spec *)

\* C30: when clear_season_data(Y) returns False, no row of season Y has been
\* deleted from Play, GameStat, PlayerStats or AdvancedMetrics: the four
\* tables hold the same season-Y rows as before the call.
C30_FailedPurgeDeletesNothing ==
    [][PurgeFails =>
          \A t \in DOMAIN Tables :
             SeasonRows(TablesAfter[t], orch.year)
                = SeasonRows(Tables[t], orch.year)]_vars

\* the last DELETE is the one on AdvancedMetrics: a purge that fails has
\* not removed the season's AdvancedMetrics rows, and has removed no row of
\* another season
C30_FailedPurgeKeepsMetrics ==
    [][PurgeFails =>
          /\ AdvancedMetrics' = AdvancedMetrics
          /\ \A t \in DOMAIN Tables :
                OtherSeasons(TablesAfter[t], orch.year)
                   = OtherSeasons(Tables[t], orch.year)]_vars

\* the purge of 2025 has failed on a store that holds the season's metrics
C30_FailedPurgeKeepsMetrics_Witness ==
    /\ orch.pc = "done" /\ orch.purge = "failed" /\ orch.year = 2025
    /\ orch.ret = Some(FALSE)
    /\ SeasonCount(AdvancedMetrics, 2025) > 0

\* the purge of 2025 has failed after its first DELETE: the season's weekly
\* and seasonal rows are in the store and its plays are not
C30_DerivedRowsWithoutPlays ==
    /\ orch.pc = "done" /\ orch.purge = "failed" /\ orch.year = 2025
    /\ orch.deleted > 0
    /\ SeasonCount(Play, 2025) = 0
    /\ SeasonCount(GameStat, 2025) > 0
    /\ SeasonCount(AdvancedMetrics, 2025) > 0

====
